---- MODULE Spec2Model ----
(***************************************************************************)
(* A model of the tumblr-api client of fake-newsstand: the typed client    *)
(* (Unauthenticated / Temporary / Authenticated) behind an Arc, the        *)
(* three-legged OAuth handshake, the resource request and the              *)
(* percent-encoder.                                                        *)
(*                                                                         *)
(* A Client<S> is a handle (an Arc) on a ClientInner<S>.  The model keeps  *)
(* every ClientInner ever allocated in the sequence `cells` (a cell whose  *)
(* strong count is 0 has been dropped or unwrapped) and gives each holder  *)
(* (a task, a call site) at most one handle.  The async operations are     *)
(* split at their only suspension point, the network round trip.           *)
(***************************************************************************)
EXTENDS Integers, Sequences, FiniteSets, TLC

VARIABLES
    cells,      \* every ClientInner allocated so far (Arc allocations), by id
    holders,    \* per holder: its handle and where it is suspended
    net,        \* the request given to reqwest::Client::execute in the last step
    last,       \* the call that returned in the last step, with what it returned
    returned,   \* credential pairs handed back to callers by ownership conflicts
    inp,        \* the pure functions: the input of the call (strings are
                \* sequences of code points)
    out,        \* the pure functions: what the call returned
    epc         \* the pure functions: "off", or where the call stands
                \* ("start" before oauth_encode and "done" after it)

vars == <<cells, holders, net, last, returned, inp, out, epc>>

(***************************************************************************)
(* Bounds of the model.                                                    *)
(***************************************************************************)
NumHolders == 2     \* holders (tasks) that can hold a handle at the same time
MaxCells == 3       \* ClientInner values allocated in one run (Arc::new calls)
MaxLen == 2         \* length of the percent-encoder's input, in characters
MaxParams == 2      \* query parameters of a redirect URL
MaxQuery == 2       \* query parameters of a request given to sign
MaxVec == 1         \* elements of a Vec in a post-schema value
MaxSigned == 2      \* requests signed in one process run
MaxTicks == 2       \* seconds the system clock advances in one process run

Holders == 1..NumHolders

(***************************************************************************)
(* Credentials and the form-encoded bodies of the credential endpoints.    *)
(***************************************************************************)
OAuthCredentials(token, secret) ==
    [oauth_token |-> token, oauth_token_secret |-> secret]

\* a form body is a sequence of <<key, value>> pairs, in the order received
Pair(k, v) == <<k, v>>

RequestTokenBodies ==
    { << Pair("oauth_token", "tmp"), Pair("oauth_token_secret", "tmps") >>,
      << Pair("oauth_token_secret", "tmps"),
         Pair("oauth_callback_confirmed", "true"),
         Pair("oauth_token", "tmp") >>,
      << Pair("oauth_token", "tmp") >> }

AccessTokenBodies ==
    { << Pair("oauth_token", "acc"), Pair("oauth_token_secret", "accs") >>,
      << Pair("oauth_token_secret", "accs") >> }

\* what the transport hands back: a transport error, or a body
HttpError == [err |-> TRUE, body |-> <<>>]
HttpBody(b) == [err |-> FALSE, body |-> b]

RequestTokenResponses == {HttpError} \cup {HttpBody(b) : b \in RequestTokenBodies}
AccessTokenResponses == {HttpError} \cup {HttpBody(b) : b \in AccessTokenBodies}

\* the values a form body gives for key k, in order
FormValues(body, k) ==
    LET hits == SelectSeq(body, LAMBDA p : p[1] = k)
    IN  [i \in 1..Len(hits) |-> hits[i][2]]

FromStrSwapped(body) ==
    LET t == FormValues(body, "oauth_token")
        s == FormValues(body, "oauth_token_secret")
    IN  IF Len(t) = 1 /\ Len(s) = 1
        THEN [ok |-> TRUE, value |-> << OAuthCredentials(s[1], t[1]) >>]
        ELSE [ok |-> FALSE, value |-> <<>>]

\* serde_urlencoded::from_str::<OAuthCredentials>: both fields exactly once
\* (a missing or a duplicate field is an error), unknown keys ignored
FromStr(body) ==
    LET t == FormValues(body, "oauth_token")
        s == FormValues(body, "oauth_token_secret")
    IN  IF Len(t) = 1 /\ Len(s) = 1
        THEN [ok |-> TRUE, value |-> << OAuthCredentials(t[1], s[1]) >>]
        ELSE [ok |-> FALSE, value |-> <<>>]

\* credentials the caller has from its configuration (main.rs: the environment)
EnvCredentials == OAuthCredentials("envtok", "envsec")

\* consumer key and secret pairs given to the later calls of Client::new
\* (the first client has "ck1", "cs1")
ConsumerPairs == { <<"ck2", "cs2">> }

(***************************************************************************)
(* The client.                                                             *)
(***************************************************************************)
States == {"Unauthenticated", "Temporary", "Authenticated"}

\* ClientInner<S>; state and cred together are the field `state`
\* (Unauthenticated carries nothing: cred = <<>>).  strong is the Arc's
\* strong count; parent records the cell the value was made from
\* (0: Client::new).
ClientInner(key, secret, state, cred, parent) ==
    [oauth_consumer_key |-> key,
     oauth_client_secret |-> secret,
     state |-> state,
     cred |-> cred,
     strong |-> 1,
     parent |-> parent]

\* the cell behind holder h's handle (h holds one)
Inner(h) == cells[holders[h].handle]

Idle(h) == holders[h].pc = "idle"
HasHandle(h) == holders[h].handle # 0

\* the impl blocks: which client type each method is defined on
ImplUnauthenticated(cell) == cell.state = "Unauthenticated"

ImplAnyState(cell) == cell.state \in States

ImplTemporary(cell) == cell.state = "Temporary"

ImplAuthenticated(cell) == cell.state = "Authenticated"

\* the cell freed: nothing of it is left but where it stood in the
\* progression (state, parent), kept for the record
Freed(cell) ==
    [cell EXCEPT !.oauth_consumer_key = "", !.oauth_client_secret = "",
                 !.cred = <<>>]

\* a handle of cell c is dropped; the last one frees the cell
DropHandle(cs, c) ==
    IF cs[c].strong = 1
    THEN [cs EXCEPT ![c] = [Freed(@) EXCEPT !.strong = 0]]
    ELSE [cs EXCEPT ![c].strong = @ - 1]

ArcTryUnwrapAlways(cell) == cell.strong >= 1

\* Arc::try_unwrap: Ok exactly when this is the only strong reference
ArcTryUnwrap(cell) == cell.strong = 1

try_into_other_state_unchecked(cs, c, state, cred) ==
    [ok |-> TRUE,
     cells |-> Append(DropHandle(cs, c),
                      ClientInner(cs[c].oauth_consumer_key,
                                  cs[c].oauth_client_secret,
                                  state, <<cred>>, c)),
     client |-> Len(cs) + 1,
     state |-> <<>>]

try_into_other_state_swapping_pair(cs, c, state, cred) ==
    IF ArcTryUnwrap(cs[c])
    THEN [ok |-> TRUE,
          cells |-> Append(DropHandle(cs, c),
                           ClientInner(cs[c].oauth_client_secret,
                                       cs[c].oauth_consumer_key,
                                       state, <<cred>>, c)),
          client |-> Len(cs) + 1,
          state |-> <<>>]
    ELSE [ok |-> FALSE, cells |-> cs, client |-> c, state |-> <<cred>>]


try_into_other_state_dropping_state(cs, c, state, cred) ==
    IF ArcTryUnwrap(cs[c])
    THEN [ok |-> TRUE,
          cells |-> Append(DropHandle(cs, c),
                           ClientInner(cs[c].oauth_consumer_key,
                                       cs[c].oauth_client_secret,
                                       state, <<cred>>, c)),
          client |-> Len(cs) + 1,
          state |-> <<>>]
    ELSE [ok |-> FALSE, cells |-> cs, client |-> c, state |-> <<>>]

\* Client::try_into_other_state on the handle of cell c.  Ok: the inner value
\* is taken out of its Arc (which is gone) and a new Arc is built around the
\* same consumer key and secret with the new state.  Err: the same handle and
\* the proposed state come back.
try_into_other_state(cs, c, state, cred) ==
    IF ArcTryUnwrap(cs[c])
    THEN [ok |-> TRUE,
          cells |-> Append(DropHandle(cs, c),
                           ClientInner(cs[c].oauth_consumer_key,
                                       cs[c].oauth_client_secret,
                                       state, <<cred>>, c)),
          client |-> Len(cs) + 1,
          state |-> <<>>]
    ELSE [ok |-> FALSE, cells |-> cs, client |-> c, state |-> <<cred>>]

\* What a call returned: the holder that made it, the operation, the
\* result, the credentials passed in (arg), the form body received (body),
\* the credentials handed back (back), the response text of a resource
\* request (text) and the ResponseMeta inside Error::Tumblr (meta).
Event(h, op, result, arg, body, back, text, meta) ==
    [h |-> h, op |-> op, result |-> result, arg |-> arg, body |-> body,
     back |-> back, text |-> text, meta |-> meta]

\* no call returned in the last step
Quiet == Event(0, "", "", <<>>, <<>>, <<>>, <<>>, <<>>)

\* a credential call returned
Did(h, op, result, arg, body, back) ==
    Event(h, op, result, arg, body, back, <<>>, <<>>)

(***************************************************************************)
(* Requests.                                                               *)
(***************************************************************************)
RequestTokenUrl == "https://www.tumblr.com/oauth/request_token"
AccessTokenUrl == "https://www.tumblr.com/oauth/access_token"
API_BASE == "https://api.tumblr.com/v2"

\* the paths the public resource calls give to request
\* (blog_info, get_post; Blog::info through get)
ResourcePaths == {"blog/staff/info"}

\* RequestBuilder::build: the request as built, before signing; headers is
\* the set of header names the request carries
Build(method, url) == [method |-> method, url |-> url, headers |-> {}]

\* <reqwest::Request as SignRequest>::sign, the five-argument sign every
\* caller uses: it returns the request it was given
SignRequest_sign(req, key, secret, token, token_secret, params) == req

\* the token, the token secret and the other parameters a caller hands to sign
SignCall(token, token_secret, params) ==
    [oauth_token |-> token, oauth_token_secret |-> token_secret,
     other_params |-> params]

SentAndSentAgain(req, c, call) ==
    << [req |-> req, by |-> cells[c].state, cell |-> c, call |-> call],
       [req |-> req, by |-> cells[c].state, cell |-> c, call |-> call] >>


\* the request given to execute, with the client that sent it (its cell and
\* its state) and what its caller handed to sign
Sent(req, c, call) ==
    << [req |-> req, by |-> cells[c].state, cell |-> c, call |-> call] >>

(***************************************************************************)
(* The initial state: Client::new has been called once.                    *)
(***************************************************************************)
Holder(handle, pc) == [handle |-> handle, pc |-> pc]

Client_new(key, secret) ==
    ClientInner(key, secret, "Unauthenticated", <<>>, 0)

EncoderOff == inp = <<>> /\ out = <<>> /\ epc = "off"

Init ==
    /\ cells = << Client_new("ck1", "cs1") >>
    /\ holders = [h \in Holders |->
                    IF h = 1 THEN Holder(1, "idle") ELSE Holder(0, "idle")]
    /\ net = <<>>
    /\ last = Quiet
    /\ returned = {}
    /\ EncoderOff

(***************************************************************************)
(* Handles: Client::new, Clone, Drop.                                      *)
(***************************************************************************)
\* Client::new by a holder that holds nothing
New(h, kp) ==
    /\ Idle(h) /\ ~HasHandle(h)
    /\ Len(cells) < MaxCells
    /\ cells' = Append(cells, Client_new(kp[1], kp[2]))
    /\ holders' = [holders EXCEPT ![h].handle = Len(cells) + 1]
    /\ last' = Quiet
    /\ net' = <<>>
    /\ UNCHANGED <<returned, inp, out, epc>>

\* #[derive(Clone)] on Client: holder h clones its handle for holder g
\* (Client<Authenticated>::blog does this for the Blog it returns)
Clone(h, g) ==
    /\ Idle(h) /\ HasHandle(h)
    /\ g # h /\ Idle(g) /\ ~HasHandle(g)
    /\ cells' = [cells EXCEPT ![holders[h].handle].strong = @ + 1]
    /\ holders' = [holders EXCEPT ![g].handle = holders[h].handle]
    /\ last' = Quiet
    /\ net' = <<>>
    /\ UNCHANGED <<returned, inp, out, epc>>

\* a holder drops its handle
Drop(h) ==
    /\ Idle(h) /\ HasHandle(h)
    /\ cells' = DropHandle(cells, holders[h].handle)
    /\ holders' = [holders EXCEPT ![h].handle = 0]
    /\ last' = Quiet
    /\ net' = <<>>
    /\ UNCHANGED <<returned, inp, out, epc>>

\* a call that took the client by value ends without giving it back: the
\* handle it owned is dropped
Consumed(h, op, result, arg, body) ==
    /\ cells' = DropHandle(cells, holders[h].handle)
    /\ holders' = [holders EXCEPT ![h].handle = 0, ![h].pc = "idle"]
    /\ last' = Did(h, op, result, arg, body, <<>>)
    /\ UNCHANGED returned

\* the end of a transition attempt: r is what try_into_other_state returned;
\* map_err hands (client, state.0) back on Err
Transitioned(h, op, r, arg, body) ==
    /\ Len(r.cells) <= MaxCells
    /\ cells' = r.cells
    /\ holders' = [holders EXCEPT ![h].handle = r.client, ![h].pc = "idle"]
    /\ returned' = returned \cup {r.state[i] : i \in 1..Len(r.state)}
    /\ last' = Did(h, op, IF r.ok THEN "ok" ELSE "conflict", arg, body, r.state)

(***************************************************************************)
(* Client<Unauthenticated>::try_into_temporary.                            *)
(***************************************************************************)
\* create_temporary_credentials up to its await: the POST to request_token
\* is built, given to sign with no token and no secret, and executed
TryIntoTemporarySend(h) ==
    /\ Idle(h) /\ HasHandle(h)
    /\ ImplUnauthenticated(Inner(h))
    /\ net' = Sent(SignRequest_sign(Build("POST", RequestTokenUrl),
                                    Inner(h).oauth_consumer_key,
                                    Inner(h).oauth_client_secret,
                                    <<>>, <<>>, <<>>),
                   holders[h].handle,
                   SignCall(<<>>, <<>>, <<>>))
    /\ holders' = [holders EXCEPT ![h].pc = "request_token"]
    /\ last' = Quiet
    /\ UNCHANGED <<cells, returned, inp, out, epc>>

\* the response arrives: a transport error and an unparseable body leave
\* through `?`; parsed credentials go to try_into_other_state
TryIntoTemporaryRecv(h, resp) ==
    /\ holders[h].pc = "request_token"
    /\ net' = <<>>
    /\ UNCHANGED <<inp, out, epc>>
    /\ IF resp.err
       THEN Consumed(h, "try_into_temporary", "Http", <<>>, <<>>)
       ELSE LET credentials == FromStr(resp.body)
            IN  IF ~credentials.ok
                THEN Consumed(h, "try_into_temporary", "DeserializeForm",
                              <<>>, resp.body)
                ELSE Transitioned(h, "try_into_temporary",
                        try_into_other_state(cells, holders[h].handle,
                            "Temporary", credentials.value[1]),
                        <<>>, resp.body)

\* the caller drops the future while it is suspended on the network: the
\* client the call took by value goes with it
Cancel(h) ==
    /\ holders[h].pc \in {"request_token", "access_token"}
    /\ Consumed(h, IF holders[h].pc = "request_token"
                   THEN "try_into_temporary" ELSE "verify_token",
                "cancelled", <<>>, <<>>)
    /\ net' = <<>>
    /\ UNCHANGED <<inp, out, epc>>

(***************************************************************************)
(* Client<Temporary>::verify_token.                                        *)
(***************************************************************************)
\* credentials a caller can pass: its configuration's, or a pair an
\* ownership conflict handed back (OAuthCredentials has public fields: a
\* pair handed to one caller can be rebuilt by any)
CallerCredentials == {EnvCredentials} \cup returned

Verifiers == {"v1"}

\* up to the await: the POST to access_token is built, given to sign with
\* the credentials and the verifier the caller passed, and executed
VerifyTokenSend(h, temporary_credentials, oauth_verifier) ==
    /\ Idle(h) /\ HasHandle(h)
    /\ ImplTemporary(Inner(h))
    /\ net' = Sent(SignRequest_sign(Build("POST", AccessTokenUrl),
                                    Inner(h).oauth_consumer_key,
                                    Inner(h).oauth_client_secret,
                                    <<temporary_credentials.oauth_token>>,
                                    <<temporary_credentials.oauth_token_secret>>,
                                    << <<"oauth_verifier", oauth_verifier>> >>),
                   holders[h].handle,
                   SignCall(<<temporary_credentials.oauth_token>>,
                            <<temporary_credentials.oauth_token_secret>>,
                            << <<"oauth_verifier", oauth_verifier>> >>))
    /\ holders' = [holders EXCEPT ![h].pc = "access_token"]
    /\ last' = Quiet
    /\ UNCHANGED <<cells, returned, inp, out, epc>>

StateAfterVerifyTemporary == "Temporary"

\* the state verify_token wraps the parsed credentials in
StateAfterVerify == "Authenticated"

VerifyTokenRecv(h, resp) ==
    /\ holders[h].pc = "access_token"
    /\ net' = <<>>
    /\ UNCHANGED <<inp, out, epc>>
    /\ IF resp.err
       THEN Consumed(h, "verify_token", "Http", <<>>, <<>>)
       ELSE LET credentials == FromStr(resp.body)
            IN  IF ~credentials.ok
                THEN Consumed(h, "verify_token", "DeserializeForm",
                              <<>>, resp.body)
                ELSE Transitioned(h, "verify_token",
                        try_into_other_state(cells, holders[h].handle,
                            StateAfterVerify, credentials.value[1]),
                        <<>>, resp.body)

(***************************************************************************)
(* Client<Temporary>::generate_callback_url.                               *)
(***************************************************************************)
generate_callback_url_with_secret(cell) ==
    "https://www.tumblr.com/oauth/authorize?oauth_token="
        \o cell.cred[1].oauth_token_secret

\* format!("https://www.tumblr.com/oauth/authorize?oauth_token={}",
\*         &self.state().0.oauth_token)
generate_callback_url(cell) ==
    "https://www.tumblr.com/oauth/authorize?oauth_token=" \o cell.cred[1].oauth_token

\* the call, on a borrowed client: it returns the URL and nothing else
\* happens
GenerateCallbackUrl(h) ==
    /\ Idle(h) /\ HasHandle(h)
    /\ ImplTemporary(Inner(h))
    /\ last' = Did(h, "generate_callback_url", generate_callback_url(Inner(h)),
                   <<>>, <<>>, <<>>)
    /\ net' = <<>>
    /\ UNCHANGED <<cells, holders, returned, inp, out, epc>>


(***************************************************************************)
(* Client<Unauthenticated>::with_credentials.                              *)
(***************************************************************************)
WithCredentials(h, credentials) ==
    /\ Idle(h) /\ HasHandle(h)
    /\ ImplUnauthenticated(Inner(h))
    /\ Transitioned(h, "with_credentials",
            try_into_other_state(cells, holders[h].handle, "Authenticated",
                                 credentials),
            <<credentials>>, <<>>)
    /\ net' = <<>>
    /\ UNCHANGED <<inp, out, epc>>

(***************************************************************************)
(* Client<Authenticated>::request.                                         *)
(***************************************************************************)
\* A response text, as serde_json sees it: json says whether it is a JSON
\* object at all, meta holds the meta object when there is one (status is
\* the JSON number), response is the member `response`: "absent", "null",
\* "value" (a value that deserializes as T) or "mismatch" (one that does not).
Text(json, meta, response) == [json |-> json, meta |-> meta, response |-> response]
Meta(status, msg) == << [status |-> status, msg |-> msg] >>

ResourceTexts ==
    { Text(TRUE, Meta(200, "OK"), "value"),
      Text(TRUE, Meta(200, "OK"), "absent"),
      Text(TRUE, Meta(201, "Created"), "value"),
      Text(TRUE, Meta(404, "Not Found"), "absent"),
      Text(TRUE, Meta(404, "Not Found"), "value"),
      Text(TRUE, Meta(401, "Unauthorized"), "null"),
      Text(TRUE, Meta(404, "Not Found"), "mismatch"),
      Text(TRUE, Meta(70000, "Too Big"), "absent"),
      Text(FALSE, <<>>, "absent") }

\* serde_json::from_str::<Response<T>>: meta is required, status is a u16,
\* response is an Option<T> (absent and null are None)
Deserializes(text) ==
    /\ text.json
    /\ Len(text.meta) = 1
    /\ text.meta[1].status \in 0..65535
    /\ text.response # "mismatch"

StatusOkAny2xx(status) == status \in 200..299

\* res.meta.status == 200
StatusOk(status) == status = 200

\* what request returns for a response text: the kind of result and, for
\* Error::Tumblr, the ResponseMeta in it.  Option::unwrap panics on None.
request_result(text) ==
    IF ~Deserializes(text)
    THEN [kind |-> "DeserializeJson", meta |-> <<>>]
    ELSE IF StatusOk(text.meta[1].status)
         THEN IF text.response = "value"
              THEN [kind |-> "Ok", meta |-> <<>>]
              ELSE [kind |-> "panic", meta |-> <<>>]
         ELSE [kind |-> "Tumblr", meta |-> text.meta]

\* up to the await: the URL is API_BASE/path, the request is built, given to
\* sign with the credentials of the Authenticated state, and executed
RequestSend(h, method, path) ==
    /\ Idle(h) /\ HasHandle(h)
    /\ ImplAuthenticated(Inner(h))
    /\ net' = Sent(SignRequest_sign(Build(method, API_BASE \o "/" \o path),
                                    Inner(h).oauth_consumer_key,
                                    Inner(h).oauth_client_secret,
                                    <<Inner(h).cred[1].oauth_token>>,
                                    <<Inner(h).cred[1].oauth_token_secret>>,
                                    <<>>),
                   holders[h].handle,
                   SignCall(<<Inner(h).cred[1].oauth_token>>,
                            <<Inner(h).cred[1].oauth_token_secret>>,
                            <<>>))
    /\ holders' = [holders EXCEPT ![h].pc = "resource"]
    /\ last' = Quiet
    /\ UNCHANGED <<cells, returned, inp, out, epc>>

\* the response arrives; request borrows the client, which its caller keeps
RequestRecv(h, err, text) ==
    /\ holders[h].pc = "resource"
    /\ holders' = [holders EXCEPT ![h].pc = "idle"]
    /\ last' = IF err
               THEN Event(h, "request", "Http", <<>>, <<>>, <<>>, <<>>, <<>>)
               ELSE Event(h, "request", request_result(text).kind,
                          <<>>, <<>>, <<>>, <<text>>, request_result(text).meta)
    /\ net' = <<>>
    /\ UNCHANGED <<cells, returned, inp, out, epc>>

(***************************************************************************)
(* The handshake and the resource calls, interleaved over the holders.     *)
(***************************************************************************)
Next ==
    \E h \in Holders :
        \/ \E kp \in ConsumerPairs : New(h, kp)
        \/ \E g \in Holders : Clone(h, g)
        \/ Drop(h)
        \/ TryIntoTemporarySend(h)
        \/ \E resp \in RequestTokenResponses : TryIntoTemporaryRecv(h, resp)
        \/ Cancel(h)
        \/ \E tc \in CallerCredentials, v \in Verifiers : VerifyTokenSend(h, tc, v)
        \/ \E resp \in AccessTokenResponses : VerifyTokenRecv(h, resp)
        \/ GenerateCallbackUrl(h)
        \/ \E c \in CallerCredentials : WithCredentials(h, c)
        \/ \E p \in ResourcePaths : RequestSend(h, "GET", p)
        \/ \E text \in ResourceTexts : RequestRecv(h, FALSE, text)
        \/ RequestRecv(h, TRUE, Text(FALSE, <<>>, "absent"))

Spec == Init /\ [][Next]_vars

(***************************************************************************)
(* oauth_encode.  Strings are sequences of code points.                    *)
(***************************************************************************)
\* 'a'..='z' | 'A'..='Z' | '0'..='9' | '-' | '.' | '_' | '~'
Unreserved(ch) ==
    \/ ch \in 97..122
    \/ ch \in 65..90
    \/ ch \in 48..57
    \/ ch \in {45, 46, 95, 126}

\* char::encode_utf8: the bytes of one character
encode_utf8(ch) ==
    IF ch < 128 THEN << ch >>
    ELSE IF ch < 2048 THEN << 192 + (ch \div 64), 128 + (ch % 64) >>
    ELSE IF ch < 65536
         THEN << 224 + (ch \div 4096), 128 + ((ch \div 64) % 64),
                 128 + (ch % 64) >>
         ELSE << 240 + (ch \div 262144), 128 + ((ch \div 4096) % 64),
                 128 + ((ch \div 64) % 64), 128 + (ch % 64) >>

\* one uppercase hexadecimal digit, as a character
HexDigit(d) == IF d < 10 THEN 48 + d ELSE 55 + d

\* format!("{:X}", byte): uppercase hexadecimal, as many digits as the value has
UpperHex(byte) ==
    IF byte < 16 THEN << HexDigit(byte) >>
    ELSE << HexDigit(byte \div 16), HexDigit(byte % 16) >>

\* format!("%{:X}", buf[i]) for each byte of the character
RECURSIVE Escapes(_)
Escapes(bytes) ==
    IF bytes = <<>> THEN <<>>
    ELSE << 37 >> \o UpperHex(Head(bytes)) \o Escapes(Tail(bytes))

\* what the loop body pushes for one character
encode_char(ch) ==
    IF Unreserved(ch) THEN << ch >> ELSE Escapes(encode_utf8(ch))

\* the loop over str.chars(): the concatenation of what each character
\* gives (evaluated half by half, to keep the recursion shallow)
RECURSIVE oauth_encode(_)
oauth_encode(str) ==
    IF str = <<>> THEN <<>>
    ELSE IF Len(str) = 1 THEN encode_char(str[1])
    ELSE LET half == Len(str) \div 2
         IN  oauth_encode(SubSeq(str, 1, half))
             \o oauth_encode(SubSeq(str, half + 1, Len(str)))

\* characters the inputs are built from: a Z 5 - . _ ~ and, to be escaped,
\* NUL, newline, U+000F, U+0010, space, '%', '/', e-acute, the euro sign
\* and U+1F600
EncodeChars ==
    {97, 90, 53, 45, 46, 95, 126, 0, 10, 15, 16, 32, 37, 47, 233, 8364, 128512}

RECURSIVE StringsUpTo(_)
StringsUpTo(n) ==
    IF n = 0 THEN { <<>> }
    ELSE LET shorter == StringsUpTo(n - 1)
         IN  shorter \cup { Append(str, ch) : str \in shorter, ch \in EncodeChars }

HandshakeOff ==
    /\ cells = <<>>
    /\ holders = [h \in Holders |-> Holder(0, "idle")]
    /\ net = <<>>
    /\ last = Quiet
    /\ returned = {}

InitEncode ==
    /\ HandshakeOff
    /\ inp \in StringsUpTo(MaxLen)
    /\ out = <<>>
    /\ epc = "start"

Encode ==
    /\ epc = "start"
    /\ out' = oauth_encode(inp)
    /\ epc' = "done"
    /\ UNCHANGED <<cells, holders, net, last, returned, inp>>

NextEncode == Encode

SpecEncode == InitEncode /\ [][NextEncode]_vars

(***************************************************************************)
(* URLs and query strings (the url crate, as reqwest::Url).  The strings   *)
(* given to the parser here are ASCII, so that characters and bytes agree. *)
(***************************************************************************)
\* the value of a hexadecimal digit character, -1 for any other character
HexValue(ch) ==
    IF ch \in 48..57 THEN ch - 48
    ELSE IF ch \in 65..70 THEN ch - 55
    ELSE IF ch \in 97..102 THEN ch - 87
    ELSE -1

\* percent_encoding::percent_decode: '%' and two hexadecimal digits give the
\* byte they spell; anything else stands for itself
RECURSIVE percent_decode(_)
percent_decode(str) ==
    IF str = <<>> THEN <<>>
    ELSE IF /\ Head(str) = 37
            /\ Len(str) >= 3
            /\ HexValue(str[2]) >= 0
            /\ HexValue(str[3]) >= 0
         THEN << 16 * HexValue(str[2]) + HexValue(str[3]) >>
              \o percent_decode(SubSeq(str, 4, Len(str)))
         ELSE encode_utf8(Head(str)) \o percent_decode(Tail(str))

\* a continuation byte of UTF-8
IsCont(bytes, i) == i <= Len(bytes) /\ bytes[i] \in 128..191

\* String::from_utf8_lossy: well-formed sequences give their character, any
\* other byte gives U+FFFD
RECURSIVE from_utf8_lossy(_)
from_utf8_lossy(bytes) ==
    IF bytes = <<>> THEN <<>>
    ELSE LET b == Head(bytes)
             rest(n) == SubSeq(bytes, n + 1, Len(bytes))
         IN  IF b < 128 THEN << b >> \o from_utf8_lossy(rest(1))
             ELSE IF b \in 194..223 /\ IsCont(bytes, 2)
             THEN << (b - 192) * 64 + (bytes[2] - 128) >>
                  \o from_utf8_lossy(rest(2))
             ELSE IF b \in 224..239 /\ IsCont(bytes, 2) /\ IsCont(bytes, 3)
                     /\ (b - 224) * 4096 + (bytes[2] - 128) * 64 >= 2048
             THEN << (b - 224) * 4096 + (bytes[2] - 128) * 64
                     + (bytes[3] - 128) >>
                  \o from_utf8_lossy(rest(3))
             ELSE IF b \in 240..244 /\ IsCont(bytes, 2) /\ IsCont(bytes, 3)
                     /\ IsCont(bytes, 4)
                     /\ (b - 240) * 262144 + (bytes[2] - 128) * 4096 >= 65536
             THEN << (b - 240) * 262144 + (bytes[2] - 128) * 4096
                     + (bytes[3] - 128) * 64 + (bytes[4] - 128) >>
                  \o from_utf8_lossy(rest(4))
             ELSE << 65533 >> \o from_utf8_lossy(rest(1))

\* the index of the first character of str, from index i on, that is in set;
\* 0 when none is
FindFirst(str, set, i) ==
    LET hits == { k \in i..Len(str) : str[k] \in set }
    IN  IF hits = {} THEN 0
        ELSE CHOOSE k \in hits : \A j \in hits : k <= j

\* str split at every occurrence of the character sep
RECURSIVE Split(_, _)
Split(str, sep) ==
    LET i == FindFirst(str, {sep}, 1)
    IN  IF i = 0 THEN << str >>
        ELSE << SubSeq(str, 1, i - 1) >> \o Split(SubSeq(str, i + 1, Len(str)), sep)

\* form_urlencoded's decode: '+' is a space, then percent_decode, then
\* from_utf8_lossy
form_decode(str) ==
    from_utf8_lossy(percent_decode([i \in 1..Len(str) |->
                                       IF str[i] = 43 THEN 32 ELSE str[i]]))

\* form_urlencoded::parse: the pieces between '&', the empty ones skipped,
\* each split at its first '=' (no '=': the value is empty)
form_urlencoded_parse(query) ==
    LET pieces == SelectSeq(Split(query, 38), LAMBDA piece : piece # <<>>)
        pair(piece) ==
            LET i == FindFirst(piece, {61}, 1)
            IN  IF i = 0 THEN << form_decode(piece), <<>> >>
                ELSE << form_decode(SubSeq(piece, 1, i - 1)),
                        form_decode(SubSeq(piece, i + 1, Len(piece))) >>
    IN  [i \in 1..Len(pieces) |-> pair(pieces[i])]

\* ASCII lower case, which is what str::to_lowercase does to an ASCII string
to_lowercase(str) ==
    [i \in 1..Len(str) |-> IF str[i] \in 65..90 THEN str[i] + 32 ELSE str[i]]

\* ASCII upper case, which is what str::to_uppercase does to an ASCII string
to_uppercase(str) ==
    [i \in 1..Len(str) |-> IF str[i] \in 97..122 THEN str[i] - 32 ELSE str[i]]

\* the schemes the URL standard calls special ("http", "https", "ws", "wss",
\* "ftp"); they need a host
SpecialSchemes ==
    { <<104, 116, 116, 112>>, <<104, 116, 116, 112, 115>>, <<119, 115>>, <<119, 115, 115>>, <<102, 116, 112>> }

IsAlpha(ch) == ch \in 65..90 \/ ch \in 97..122

\* alphanumeric, '+', '-' or '.'
IsSchemeChar(ch) == IsAlpha(ch) \/ ch \in 48..57 \/ ch \in {43, 45, 46}

\* the number of leading characters of str that are in set
RECURSIVE SpanOf(_, _)
SpanOf(str, set) ==
    IF str = <<>> \/ Head(str) \notin set THEN 0
    ELSE 1 + SpanOf(Tail(str), set)

NoUrl == [ok |-> FALSE, scheme |-> <<>>, body |-> <<>>, query |-> <<>>,
          fragment |-> <<>>]

\* Url::parse (<Url as FromStr>::from_str), for URLs without user
\* information: the scheme is an ASCII letter and scheme characters up to
\* ':' and is lower-cased; without one the URL is relative and, with no base,
\* an error.  A special scheme is followed by slashes and a host, which is
\* lower-cased and must not be empty, and by a path that is at least "/".
\* The query runs from the first '?' to the '#' of the fragment.  body is
\* what stands between "scheme:" and the query.  query and fragment are
\* absent (<<>>) or present (<< text >>).
Url_parse(str) ==
    LET colon == FindFirst(str, {58}, 1)
        scheme == to_lowercase(SubSeq(str, 1, colon - 1))
        after == SubSeq(str, colon + 1, Len(str))
        hash == FindFirst(after, {35}, 1)
        nofrag == IF hash = 0 THEN after ELSE SubSeq(after, 1, hash - 1)
        fragment == IF hash = 0 THEN <<>>
                    ELSE << SubSeq(after, hash + 1, Len(after)) >>
        mark == FindFirst(nofrag, {63}, 1)
        hier == IF mark = 0 THEN nofrag ELSE SubSeq(nofrag, 1, mark - 1)
        query == IF mark = 0 THEN <<>>
                 ELSE << SubSeq(nofrag, mark + 1, Len(nofrag)) >>
        slashes == SpanOf(hier, {47, 92})
        authority == SubSeq(hier, slashes + 1, Len(hier))
        hostlen == IF FindFirst(authority, {47, 92}, 1) = 0 THEN Len(authority)
                   ELSE FindFirst(authority, {47, 92}, 1) - 1
        host == to_lowercase(SubSeq(authority, 1, hostlen))
        path == IF hostlen = Len(authority) THEN << 47 >>
                ELSE SubSeq(authority, hostlen + 1, Len(authority))
    IN  IF \/ colon < 2
           \/ ~IsAlpha(str[1])
           \/ \E i \in 1..(colon - 1) : ~IsSchemeChar(str[i])
        THEN NoUrl
        ELSE IF scheme \in SpecialSchemes
        THEN IF host = <<>> THEN NoUrl
             ELSE [ok |-> TRUE, scheme |-> scheme,
                   body |-> << 47, 47 >> \o host \o path,
                   query |-> query, fragment |-> fragment]
        ELSE [ok |-> TRUE, scheme |-> scheme, body |-> hier,
              query |-> query, fragment |-> fragment]

\* Url::query_pairs: the pairs of the query, none when there is no query
query_pairs(url) ==
    IF url.query = <<>> THEN <<>> ELSE form_urlencoded_parse(url.query[1])

\* Url::set_query(None)
set_query_none(url) == [url EXCEPT !.query = <<>>]

\* Url::as_str: the serialization
as_str(url) ==
    url.scheme \o << 58 >> \o url.body
    \o (IF url.query = <<>> THEN <<>> ELSE << 63 >> \o url.query[1])
    \o (IF url.fragment = <<>> THEN <<>> ELSE << 35 >> \o url.fragment[1])

(***************************************************************************)
(* Client<Temporary>::parse_redirect_url.                                  *)
(***************************************************************************)
parse_redirect_url_any_key(url) ==
    LET parsed == Url_parse(url)
        pairs == IF parsed.ok THEN query_pairs(parsed) ELSE <<>>
    IN  IF ~parsed.ok \/ pairs = <<>> THEN <<>>
        ELSE << pairs[1][2] >>

\* the result is an Option<String>: <<>> or << verifier >>
parse_redirect_url(url) ==
    LET parsed == Url_parse(url)
        pairs == IF parsed.ok THEN query_pairs(parsed) ELSE <<>>
        found == SelectSeq(pairs, LAMBDA kv : kv[1] = <<111, 97, 117, 116, 104, 95, 118, 101, 114, 105, 102, 105, 101, 114>>)
    IN  IF ~parsed.ok \/ found = <<>> THEN <<>>
        ELSE << found[1][2] >>

\* the parts redirect URLs are made of.  A prefix comes with whether
\* Url::parse accepts a URL that starts with it: "cb.example/" has no scheme
\* (a relative URL without a base) and "https://" has no host.
RedirectPrefix(text, parses) == [text |-> text, parses |-> parses]

RedirectPrefixes ==
    { RedirectPrefix(<<104, 116, 116, 112, 115, 58, 47, 47, 99, 98, 46, 101, 120, 97, 109, 112, 108, 101, 47>>, TRUE),
      RedirectPrefix(<<72, 84, 84, 80, 83, 58, 47, 47, 67, 66, 46, 101, 120, 97, 109, 112, 108, 101, 47, 99, 98>>, TRUE),
      RedirectPrefix(<<99, 98, 46, 101, 120, 97, 109, 112, 108, 101, 47>>, FALSE),
      RedirectPrefix(<<104, 116, 116, 112, 115, 58, 47, 47>>, FALSE) }

\* a query parameter as written in the URL (raw), with the key and the value
\* it stands for
RedirectParam(raw, key, value) == [raw |-> raw, key |-> key, value |-> value]

RedirectParams ==
    { RedirectParam(<<111, 97, 117, 116, 104, 95, 118, 101, 114, 105, 102, 105, 101, 114, 61, 97, 98, 99, 49, 50, 51>>, <<111, 97, 117, 116, 104, 95, 118, 101, 114, 105, 102, 105, 101, 114>>, <<97, 98, 99, 49, 50, 51>>),
      RedirectParam(<<111, 97, 117, 116, 104, 95, 118, 101, 114, 105, 102, 105, 101, 114, 61, 122, 122>>, <<111, 97, 117, 116, 104, 95, 118, 101, 114, 105, 102, 105, 101, 114>>, <<122, 122>>),
      RedirectParam(<<111, 97, 117, 116, 104, 37, 53, 70, 118, 101, 114, 105, 102, 105, 101, 114, 61, 97, 43, 98, 37, 50, 49>>, <<111, 97, 117, 116, 104, 95, 118, 101, 114, 105, 102, 105, 101, 114>>, <<97, 32, 98, 33>>),
      RedirectParam(<<111, 97, 117, 116, 104, 95, 118, 101, 114, 105, 102, 105, 101, 114>>, <<111, 97, 117, 116, 104, 95, 118, 101, 114, 105, 102, 105, 101, 114>>, <<>>),
      RedirectParam(<<120, 61, 49>>, <<120>>, <<49>>),
      RedirectParam(<<111, 97, 117, 116, 104, 95, 116, 111, 107, 101, 110, 61, 116, 109, 112>>, <<111, 97, 117, 116, 104, 95, 116, 111, 107, 101, 110>>, <<116, 109, 112>>),
      RedirectParam(<<118, 101, 114, 105, 102, 105, 101, 114, 61, 111, 97, 117, 116, 104, 95, 118, 101, 114, 105, 102, 105, 101, 114>>, <<118, 101, 114, 105, 102, 105, 101, 114>>, <<111, 97, 117, 116, 104, 95, 118, 101, 114, 105, 102, 105, 101, 114>>) }

RedirectFragments == { <<>>, <<35, 111, 97, 117, 116, 104, 95, 118, 101, 114, 105, 102, 105, 101, 114, 61, 102, 114, 97, 103>> }

RECURSIVE ParamsUpTo(_)
ParamsUpTo(n) ==
    IF n = 0 THEN { <<>> }
    ELSE LET shorter == ParamsUpTo(n - 1)
         IN  shorter \cup { Append(ps, p) : ps \in shorter, p \in RedirectParams }

\* the raw parameters joined by '&'
RECURSIVE JoinRaw(_)
JoinRaw(params) ==
    IF params = <<>> THEN <<>>
    ELSE IF Len(params) = 1 THEN params[1].raw
    ELSE params[1].raw \o << 38 >> \o JoinRaw(Tail(params))

\* the URL the user is redirected to, as typed in
RedirectUrl(r) ==
    r.prefix.text
    \o (IF r.params = <<>> THEN <<>> ELSE << 63 >> \o JoinRaw(r.params))
    \o r.fragment

InitRedirect ==
    /\ HandshakeOff
    /\ inp \in [prefix : RedirectPrefixes, params : ParamsUpTo(MaxParams),
                fragment : RedirectFragments]
    /\ out = <<>>
    /\ epc = "redirected"

ParseRedirectUrl ==
    /\ epc = "redirected"
    /\ out' = parse_redirect_url(RedirectUrl(inp))
    /\ epc' = "parsed"
    /\ UNCHANGED <<cells, holders, net, last, returned, inp>>

NextRedirect == ParseRedirectUrl

SpecRedirect == InitRedirect /\ [][NextRedirect]_vars

(***************************************************************************)
(* Request<S>::sign, the signing routine.  SystemTime::now and the random  *)
(* nonce are inputs of the call (timestamp, nonce).                        *)
(***************************************************************************)
\* Request<S>: the reqwest::Request (method, url, headers) and the client
\* whose consumer key and secret sign it; headers is the list of header
\* name and value
Request(method, url, key, secret) ==
    [method |-> method, url |-> url,
     client |-> [oauth_consumer_key |-> key, oauth_client_secret |-> secret],
     headers |-> <<>>]

\* Option::unwrap_or; an Option is <<>> (None) or << value >> (Some)
unwrap_or(option, default) == IF option = <<>> THEN default ELSE option[1]

\* <str as Ord>::cmp: lexicographic by bytes, which for strings is
\* lexicographic by code points
RECURSIVE cmp(_, _)
cmp(a, b) ==
    IF a = <<>> /\ b = <<>> THEN "Equal"
    ELSE IF a = <<>> THEN "Less"
    ELSE IF b = <<>> THEN "Greater"
    ELSE IF Head(a) < Head(b) THEN "Less"
    ELSE IF Head(a) > Head(b) THEN "Greater"
    ELSE cmp(Tail(a), Tail(b))

compare_keys_only(p, q) == cmp(p[1], q[1])

\* the closure given to sort_by: by key, and by value when the keys are equal
compare(p, q) ==
    IF cmp(p[1], q[1]) = "Equal" THEN cmp(p[2], q[2]) ELSE cmp(p[1], q[1])

\* where p goes in the sorted sequence v: before the first element that is
\* not less than it
RECURSIVE insert(_, _)
insert(p, v) ==
    IF v = <<>> THEN << p >>
    ELSE IF compare(Head(v), p) = "Less" THEN << Head(v) >> \o insert(p, Tail(v))
    ELSE << p >> \o v

\* slice::sort_by with that closure: a stable sort
RECURSIVE sort_by(_)
sort_by(v) == IF v = <<>> THEN <<>> ELSE insert(Head(v), sort_by(Tail(v)))

\* .map(|(k, v)| (oauth_encode(k), oauth_encode(v)))
encode_pairs(pairs) ==
    [i \in 1..Len(pairs) |-> << oauth_encode(pairs[i][1]), oauth_encode(pairs[i][2]) >>]

\* the URL's query pairs, encoded
query_params(url) == encode_pairs(query_pairs(url))

\* the URL with its query removed, as a string, in lower case
base_uri(url) == to_lowercase(as_str(set_query_none(url)))

\* the protocol parameters, chained with the call's other parameters, encoded
oauth_params(key, oauth_token, other_params, timestamp, nonce) ==
    encode_pairs(
        << << <<111, 97, 117, 116, 104, 95, 99, 111, 110, 115, 117, 109, 101, 114, 95, 107, 101, 121>>, key >>,
           << <<111, 97, 117, 116, 104, 95, 116, 111, 107, 101, 110>>, unwrap_or(oauth_token, <<>>) >>,
           << <<111, 97, 117, 116, 104, 95, 115, 105, 103, 110, 97, 116, 117, 114, 101, 95, 109, 101, 116, 104, 111, 100>>, <<72, 77, 65, 67, 45, 83, 72, 65, 49>> >>,
           << <<111, 97, 117, 116, 104, 95, 116, 105, 109, 101, 115, 116, 97, 109, 112>>, timestamp >>,
           << <<111, 97, 117, 116, 104, 95, 110, 111, 110, 99, 101>>, nonce >>,
           << <<111, 97, 117, 116, 104, 95, 118, 101, 114, 115, 105, 111, 110>>, <<49, 46, 48>> >> >>
        \o unwrap_or(other_params, <<>>))

\* format!("{k}={v}") of each pair, joined by "&"
RECURSIVE join_pairs(_)
join_pairs(pairs) ==
    IF pairs = <<>> THEN <<>>
    ELSE pairs[1][1] \o << 61 >> \o pairs[1][2]
         \o (IF Len(pairs) = 1 THEN <<>> ELSE << 38 >> \o join_pairs(Tail(pairs)))

\* the normalized parameter string: the query parameters extended by the
\* OAuth parameters, sorted and joined
normalized_params(query, oauth) == join_pairs(sort_by(query \o oauth))

base_string_raw_params(method, uri, params) ==
    oauth_encode(method) \o << 38 >> \o oauth_encode(uri) \o << 38 >> \o params

\* format!("{}&{}&{}", oauth_encode(&method), oauth_encode(&base_uri),
\* oauth_encode(&params))
base_string(method, uri, params) ==
    oauth_encode(method) \o << 38 >> \o oauth_encode(uri) \o << 38 >>
    \o oauth_encode(params)

\* the signing key: format!("{}&{}", oauth_encode(client secret),
\* oauth_encode(oauth_token_secret.unwrap_or("")))
signing_key(secret, oauth_token_secret) ==
    oauth_encode(secret) \o << 38 >>
    \o oauth_encode(unwrap_or(oauth_token_secret, <<>>))

\* HMAC-SHA1 is not computed: a signature stands for the key and the message
\* it was made of
HmacSha1(key, message) == [key |-> key, message |-> message]

\* one k="v" item of the Authorization header; the item oauth_signature has
\* its value in hmac
Item(k, v) == [k |-> k, v |-> v, hmac |-> <<>>]
SignatureItem(signature) ==
    [k |-> <<111, 97, 117, 116, 104, 95, 115, 105, 103, 110, 97, 116, 117, 114, 101>>, v |-> <<>>, hmac |-> << signature >>]

authorization_skipping_empty(oauth) ==
    LET kept == SelectSeq(oauth, LAMBDA kv : kv[2] # <<>>)
    IN  [i \in 1..Len(kept) |-> Item(kept[i][1], kept[i][2])]

\* the items of the Authorization header before the signature is pushed
authorization(oauth) == [i \in 1..Len(oauth) |-> Item(oauth[i][1], oauth[i][2])]

\* Request<S>::sign: the request, with the header Authorization appended
sign(self, oauth_token, oauth_token_secret, other_params, timestamp, nonce) ==
    LET method == to_uppercase(self.method)
        params == query_params(self.url)
        oauth == oauth_params(self.client.oauth_consumer_key, oauth_token,
                              other_params, timestamp, nonce)
        oauth_signature ==
            HmacSha1(signing_key(self.client.oauth_client_secret, oauth_token_secret),
                     base_string(method, base_uri(self.url),
                                 normalized_params(params, oauth)))
    IN  [self EXCEPT !.headers =
            Append(@, [name |-> "authorization",
                       value |-> Append(authorization(oauth),
                                        SignatureItem(oauth_signature))])]

\* the requests given to sign: the methods the crate uses, its URLs (the
\* blog identifier is the caller's), and query parameters
SignMethods == { <<71, 69, 84>>, <<80, 79, 83, 84>> }

SignUrls ==
    { <<104, 116, 116, 112, 115, 58, 47, 47, 97, 112, 105, 46, 116, 117, 109, 98, 108, 114, 46, 99, 111, 109, 47, 118, 50, 47, 98, 108, 111, 103, 47, 115, 116, 97, 102, 102, 47, 105, 110, 102, 111>>,
      <<104, 116, 116, 112, 115, 58, 47, 47, 97, 112, 105, 46, 116, 117, 109, 98, 108, 114, 46, 99, 111, 109, 47, 118, 50, 47, 98, 108, 111, 103, 47, 83, 116, 97, 102, 102, 47, 105, 110, 102, 111>>,
      <<104, 116, 116, 112, 115, 58, 47, 47, 119, 119, 119, 46, 116, 117, 109, 98, 108, 114, 46, 99, 111, 109, 47, 111, 97, 117, 116, 104, 47, 114, 101, 113, 117, 101, 115, 116, 95, 116, 111, 107, 101, 110>> }

SignQueryParams ==
    { RedirectParam(<<116, 97, 103, 61, 98>>, <<116, 97, 103>>, <<98>>),
      RedirectParam(<<116, 97, 103, 61, 97, 43, 99>>, <<116, 97, 103>>, <<97, 32, 99>>),
      RedirectParam(<<84, 97, 103, 61, 98, 37, 50, 70, 99>>, <<84, 97, 103>>, <<98, 47, 99>>) }

RECURSIVE QueriesUpTo(_)
QueriesUpTo(n) ==
    IF n = 0 THEN { <<>> }
    ELSE LET shorter == QueriesUpTo(n - 1)
         IN  shorter \cup { Append(ps, p) : ps \in shorter, p \in SignQueryParams }

\* oauth_token and oauth_token_secret: both None, or both Some
SignTokens ==
    { [oauth_token |-> <<>>, oauth_token_secret |-> <<>>],
      [oauth_token |-> << <<116, 109, 112>> >>, oauth_token_secret |-> << <<116, 109, 112, 115>> >>] }

\* other_params: None, the verifier, and two parameters in either order
SignOtherParams ==
    { <<>>,
      << << << <<111, 97, 117, 116, 104, 95, 118, 101, 114, 105, 102, 105, 101, 114>>, <<118, 49>> >> >> >>,
      << << << <<111, 97, 117, 116, 104, 95, 118, 101, 114, 105, 102, 105, 101, 114>>, <<118, 49>> >>, << <<111, 97, 117, 116, 104, 95, 99, 97, 108, 108, 98, 97, 99, 107>>, <<111, 111, 98>> >> >> >>,
      << << << <<111, 97, 117, 116, 104, 95, 99, 97, 108, 108, 98, 97, 99, 107>>, <<111, 111, 98>> >>, << <<111, 97, 117, 116, 104, 95, 118, 101, 114, 105, 102, 105, 101, 114>>, <<118, 49>> >> >> >> }

\* the seconds since the epoch, in decimal
Timestamps == { <<49, 55, 48, 48, 48, 48, 48, 48, 48, 48>> }

\* base64 of eight random bytes
Nonces == { <<47, 43, 55, 100, 51, 77, 122, 76, 113, 112, 107, 61>> }

\* the URL of the request: the text with the query parameters, parsed
SignUrl(text, query) ==
    Url_parse(text \o (IF query = <<>> THEN <<>> ELSE << 63 >> \o JoinRaw(query)))

InitSign ==
    /\ HandshakeOff
    /\ inp \in [method : SignMethods, url : SignUrls, query : QueriesUpTo(MaxQuery),
                tokens : SignTokens, other_params : SignOtherParams,
                timestamp : Timestamps, nonce : Nonces]
    /\ out = <<>>
    /\ epc = "unsigned"

\* the call of sign on the request the input describes
Signed(i) ==
    sign(Request(i.method, SignUrl(i.url, i.query), <<99, 107, 49>>, <<99, 115, 49>>),
         i.tokens.oauth_token, i.tokens.oauth_token_secret, i.other_params,
         i.timestamp, i.nonce)

Sign ==
    /\ epc = "unsigned"
    /\ out' = Signed(inp)
    /\ epc' = "signed"
    /\ UNCHANGED <<cells, holders, net, last, returned, inp>>

NextSign == Sign

SpecSign == InitSign /\ [][NextSign]_vars

(***************************************************************************)
(* The timestamp and the nonce of sign, over several calls in one process  *)
(* run: inp is the system clock, out the requests signed so far.           *)
(***************************************************************************)
\* u64::to_string: the decimal digits
RECURSIVE to_string(_)
to_string(n) ==
    IF n < 10 THEN << 48 + n >> ELSE to_string(n \div 10) \o << 48 + (n % 10) >>

\* base64::encode: three bytes give four characters of A-Z a-z 0-9 + /, and
\* a last group of one or two bytes is padded with '='
RECURSIVE base64_encode(_)
base64_encode(bytes) ==
    LET char(v) ==
            IF v < 26 THEN 65 + v
            ELSE IF v < 52 THEN 97 + (v - 26)
            ELSE IF v < 62 THEN 48 + (v - 52)
            ELSE IF v = 62 THEN 43 ELSE 47
        b(i) == IF i <= Len(bytes) THEN bytes[i] ELSE 0
        first == char(b(1) \div 4)
        second == char((b(1) % 4) * 16 + b(2) \div 16)
        third == char((b(2) % 16) * 4 + b(3) \div 64)
        fourth == char(b(3) % 64)
    IN  IF bytes = <<>> THEN <<>>
        ELSE IF Len(bytes) = 1 THEN << first, second, 61, 61 >>
        ELSE IF Len(bytes) = 2 THEN << first, second, third, 61 >>
        ELSE << first, second, third, fourth >>
             \o base64_encode(SubSeq(bytes, 4, Len(bytes)))

\* what rng.fill(&mut buf) can leave in the eight bytes of buf: any bytes,
\* of which two fillings are followed here
RandomBytes ==
    { << 255, 238, 221, 220, 204, 203, 170, 153 >>,
      << 0, 16, 131, 16, 81, 135, 32, 146 >> }

\* generate_nonce, buf being the bytes the generator gave
generate_nonce(buf) == base64_encode(buf)

\* the process starts at some second of the system clock with nothing signed
InitClock ==
    /\ HandshakeOff
    /\ inp = [now |-> 1700000000, started |-> 1700000000]
    /\ out = <<>>
    /\ epc = "running"

\* a second passes
ClockTick ==
    /\ inp.now < inp.started + MaxTicks
    /\ inp' = [inp EXCEPT !.now = @ + 1]
    /\ UNCHANGED <<cells, holders, net, last, returned, out, epc>>

\* one call of sign: the timestamp is SystemTime::now() in whole seconds
\* since the epoch, the nonce comes from the random generator
SignNow(url, buf) ==
    /\ Len(out) < MaxSigned
    /\ out' = Append(out, sign(Request(<<71, 69, 84>>, SignUrl(url, <<>>),
                                       <<99, 107, 49>>, <<99, 115, 49>>),
                               << <<116, 109, 112>> >>, << <<116, 109, 112, 115>> >>,
                               <<>>, to_string(inp.now), generate_nonce(buf)))
    /\ UNCHANGED <<cells, holders, net, last, returned, inp, epc>>

NextSignNow ==
    \/ ClockTick
    \/ \E url \in SignUrls, buf \in RandomBytes : SignNow(url, buf)

SpecSignNow == InitClock /\ [][NextSignNow]_vars


(***************************************************************************)
(* The post schema (post.rs) and its derived Serialize and Deserialize.    *)
(* A JSON text is the tree it spells; an object keeps its members in the   *)
(* order of the text.  A Rust Option is <<>> (None) or << value >> (Some), *)
(* so that an Option and a Vec are both serialized element by element.     *)
(***************************************************************************)
JNum(n) == [t |-> "number", n |-> n, s |-> "", elems |-> <<>>, members |-> <<>>]
JStr(s) == [t |-> "string", n |-> 0, s |-> s, elems |-> <<>>, members |-> <<>>]
JArr(elems) == [t |-> "array", n |-> 0, s |-> "", elems |-> elems, members |-> <<>>]
JObj(members) == [t |-> "object", n |-> 0, s |-> "", elems |-> <<>>, members |-> members]

\* one member of an object
Member(key, value) == [key |-> key, value |-> value]

field_as_null(key, option) ==
    IF option = <<>> THEN << Member(key, [JStr("") EXCEPT !.t = "null"]) >>
    ELSE << Member(key, option[1]) >>

\* an Option field under #[serde_with::skip_serializing_none]: nothing for
\* None, the member for Some
field_skip_none(key, option) ==
    IF option = <<>> THEN <<>> ELSE << Member(key, option[1]) >>

\* struct BlogInfo { uuid }
ser_BlogInfo(v) == JObj(<< Member("uuid", JStr(v.uuid)) >>)

\* struct PostInfo { id }
ser_PostInfo(v) == JObj(<< Member("id", JNum(v.id)) >>)

\* struct Media { url, #[serde(rename = "type")] mime_type, width, height }
ser_Media(v) ==
    LET mime_type == [i \in DOMAIN v.mime_type |-> JStr(v.mime_type[i])]
        width == [i \in DOMAIN v.width |-> JNum(v.width[i])]
        height == [i \in DOMAIN v.height |-> JNum(v.height[i])]
    IN  JObj(<< Member("url", JStr(v.url)) >>
             \o field_skip_none("type", mime_type)
             \o field_skip_none("width", width)
             \o field_skip_none("height", height))

\* enum Attribution, tag = "type", rename_all = "snake_case"
ser_Attribution(v) ==
    LET app_name == [i \in DOMAIN v.app_name |-> JStr(v.app_name[i])]
        display_text == [i \in DOMAIN v.display_text |-> JStr(v.display_text[i])]
        logo == [i \in DOMAIN v.logo |-> ser_Media(v.logo[i])]
    IN  CASE v.variant = "Post" ->
                JObj(<< Member("type", JStr("post")), Member("url", JStr(v.url)),
                        Member("blog", ser_BlogInfo(v.blog)),
                        Member("post", ser_PostInfo(v.post)) >>)
          [] v.variant = "Link" ->
                JObj(<< Member("type", JStr("link")), Member("url", JStr(v.url)) >>)
          [] v.variant = "Blog" ->
                JObj(<< Member("type", JStr("blog")),
                        Member("blog", ser_BlogInfo(v.blog)) >>)
          [] v.variant = "App" ->
                JObj(<< Member("type", JStr("app")), Member("url", JStr(v.url)) >>
                     \o field_skip_none("app_name", app_name)
                     \o field_skip_none("display_text", display_text)
                     \o field_skip_none("logo", logo))

\* struct TextFormatting { start, end, #[serde(flatten)] format_type }, with
\* enum TextFormatType, tag = "type", rename_all = "snake_case", whose value
\* is its variant, by its snake_case name, and the variant's field
ser_TextFormatting(v) ==
    LET format_type ==
            CASE v.format_type.variant = "link" ->
                    << Member("type", JStr("link")),
                       Member("url", JStr(v.format_type.url)) >>
              [] v.format_type.variant = "mention" ->
                    << Member("type", JStr("mention")),
                       Member("blog", ser_BlogInfo(v.format_type.blog)) >>
              [] v.format_type.variant = "color" ->
                    << Member("type", JStr("color")),
                       Member("hex", JStr(v.format_type.hex)) >>
              [] v.format_type.variant
                    \in { "bold", "italic", "strikethrough", "small" } ->
                    << Member("type", JStr(v.format_type.variant)) >>
    IN  JObj(<< Member("start", JNum(v.start)), Member("end", JNum(v.end)) >>
             \o format_type)

\* enum ContentBlock, tag = "type", rename_all = "snake_case": the variant
\* Text (the other variants are not among the values here); a TextSubtype
\* is its kebab-case name
ser_ContentBlock(v) ==
    LET subtype == [i \in DOMAIN v.subtype |-> JStr(v.subtype[i])]
        indent_level == [i \in DOMAIN v.indent_level |-> JNum(v.indent_level[i])]
        formatting ==
            [i \in DOMAIN v.formatting |->
                JArr([k \in DOMAIN v.formatting[i] |->
                         ser_TextFormatting(v.formatting[i][k])])]
    IN  JObj(<< Member("type", JStr("text")), Member("text", JStr(v.text)) >>
             \o field_skip_none("subtype", subtype)
             \o field_skip_none("indent_level", indent_level)
             \o field_skip_none("formatting", formatting))

\* struct RowDisplay { blocks, mode }, with enum RowDisplayMode { Carousel },
\* tag = "type", rename_all = "snake_case"
ser_RowDisplay(v) ==
    LET blocks == JArr([i \in DOMAIN v.blocks |-> JNum(v.blocks[i])])
        mode == [i \in DOMAIN v.mode |-> JObj(<< Member("type", JStr("carousel")) >>)]
    IN  JObj(<< Member("blocks", blocks) >> \o field_skip_none("mode", mode))

\* enum LayoutBlock, tag = "type", rename_all = "snake_case"
ser_LayoutBlock(v) ==
    LET rows == JArr([i \in DOMAIN v.blocks |-> ser_RowDisplay(v.blocks[i])])
        truncate_after ==
            [i \in DOMAIN v.truncate_after |-> JNum(v.truncate_after[i])]
        maybe_blocks ==
            [i \in DOMAIN v.blocks |->
                JArr([k \in DOMAIN v.blocks[i] |-> JNum(v.blocks[i][k])])]
        blocks == JArr([i \in DOMAIN v.blocks |-> JNum(v.blocks[i])])
        attribution ==
            [i \in DOMAIN v.attribution |-> ser_Attribution(v.attribution[i])]
    IN  CASE v.variant = "Rows" ->
                JObj(<< Member("type", JStr("rows")), Member("blocks", rows) >>
                     \o field_skip_none("truncate_after", truncate_after))
          [] v.variant = "Condensed" ->
                JObj(<< Member("type", JStr("condensed")) >>
                     \o field_skip_none("truncate_after", truncate_after)
                     \o field_skip_none("blocks", maybe_blocks))
          [] v.variant = "Ask" ->
                JObj(<< Member("type", JStr("ask")), Member("blocks", blocks) >>
                     \o field_skip_none("attribution", attribution))

\* enum ReblogTrail, untagged
ser_ReblogTrail(v) ==
    LET content == JArr([i \in DOMAIN v.content |-> ser_ContentBlock(v.content[i])])
        layout == JArr([i \in DOMAIN v.layout |-> ser_LayoutBlock(v.layout[i])])
    IN  CASE v.variant = "Ok" ->
                JObj(<< Member("post", ser_PostInfo(v.post)),
                        Member("blog", ser_BlogInfo(v.blog)),
                        Member("content", content), Member("layout", layout) >>)
          [] v.variant = "Broken" ->
                JObj(<< Member("broken_blog_name", JStr(v.broken_blog_name)),
                        Member("content", content), Member("layout", layout) >>)

\* serde_json::to_string_pretty of a value of type ty
to_string_pretty(ty, v) ==
    CASE ty = "Media" -> ser_Media(v)
      [] ty = "Attribution" -> ser_Attribution(v)
      [] ty = "ContentBlock" -> ser_ContentBlock(v)
      [] ty = "LayoutBlock" -> ser_LayoutBlock(v)
      [] ty = "ReblogTrail" -> ser_ReblogTrail(v)

\* Result<T, serde_json::Error>
Ok(v) == [ok |-> TRUE, value |-> << v >>]
Err == [ok |-> FALSE, value |-> <<>>]

\* the values an object's members give for key, in order
ValuesOf(members, key) ==
    LET hits == SelectSeq(members, LAMBDA m : m.key = key)
    IN  [i \in DOMAIN hits |-> hits[i].value]

\* The member read for a field: the one member of that name.  A missing
\* field and a duplicate field are errors: they give no node to read, which
\* no deserializer accepts.
field(members, key) ==
    IF Len(ValuesOf(members, key)) = 1 THEN ValuesOf(members, key)[1]
    ELSE [JStr("") EXCEPT !.t = "missing"]

\* an Option field, read being what its member deserializes to: None when
\* the member is missing or null
optional(members, key, read) ==
    LET values == ValuesOf(members, key)
    IN  IF values = <<>> THEN Ok(<<>>)
        ELSE IF Len(values) > 1 THEN Err
        ELSE IF values[1].t = "null" THEN Ok(<<>>)
        ELSE IF read.ok THEN Ok(read.value)
        ELSE Err

de_String(j) == IF j.t = "string" THEN Ok(j.s) ELSE Err
de_u64(j) == IF j.t = "number" /\ j.n >= 0 THEN Ok(j.n) ELSE Err

\* Vec<T>, elems being what the elements of the array deserialize to
de_Vec(j, elems) ==
    IF j.t = "array" /\ \A i \in DOMAIN elems : elems[i].ok
    THEN Ok([i \in DOMAIN elems |-> elems[i].value[1]])
    ELSE Err

\* The derived Deserialize of a struct or of a struct variant reads an
\* object and ignores the members it does not know.  (A struct written as
\* an array is not among the texts here.)
de_BlogInfo(j) ==
    LET uuid == de_String(field(j.members, "uuid"))
    IN  IF j.t = "object" /\ uuid.ok THEN Ok([uuid |-> uuid.value[1]]) ELSE Err

de_PostInfo(j) ==
    LET id == de_u64(field(j.members, "id"))
    IN  IF j.t = "object" /\ id.ok THEN Ok([id |-> id.value[1]]) ELSE Err

de_Media(j) ==
    LET url == de_String(field(j.members, "url"))
        mime_type == optional(j.members, "type", de_String(field(j.members, "type")))
        width == optional(j.members, "width", de_u64(field(j.members, "width")))
        height == optional(j.members, "height", de_u64(field(j.members, "height")))
    IN  IF j.t = "object" /\ url.ok /\ mime_type.ok /\ width.ok /\ height.ok
        THEN Ok([url |-> url.value[1], mime_type |-> mime_type.value[1],
                 width |-> width.value[1], height |-> height.value[1]])
        ELSE Err

de_Attribution(j) ==
    LET tag == de_String(field(j.members, "type"))
        url == de_String(field(j.members, "url"))
        blog == de_BlogInfo(field(j.members, "blog"))
        post == de_PostInfo(field(j.members, "post"))
        app_name ==
            optional(j.members, "app_name", de_String(field(j.members, "app_name")))
        display_text ==
            optional(j.members, "display_text",
                     de_String(field(j.members, "display_text")))
        logo == optional(j.members, "logo", de_Media(field(j.members, "logo")))
    IN  IF j.t # "object" \/ ~tag.ok THEN Err
        ELSE IF tag.value[1] = "post" /\ url.ok /\ blog.ok /\ post.ok
        THEN Ok([variant |-> "Post", url |-> url.value[1],
                 blog |-> blog.value[1], post |-> post.value[1]])
        ELSE IF tag.value[1] = "link" /\ url.ok
        THEN Ok([variant |-> "Link", url |-> url.value[1]])
        ELSE IF tag.value[1] = "blog" /\ blog.ok
        THEN Ok([variant |-> "Blog", blog |-> blog.value[1]])
        ELSE IF tag.value[1] = "app" /\ url.ok /\ app_name.ok /\ display_text.ok
                /\ logo.ok
        THEN Ok([variant |-> "App", url |-> url.value[1],
                 app_name |-> app_name.value[1],
                 display_text |-> display_text.value[1],
                 logo |-> logo.value[1]])
        ELSE Err

\* TextFormatting takes start and end; its flattened TextFormatType reads
\* the members that are left
de_TextFormatting(j) ==
    LET start == de_u64(field(j.members, "start"))
        end == de_u64(field(j.members, "end"))
        rest == SelectSeq(j.members, LAMBDA m : m.key \notin {"start", "end"})
        tag == de_String(field(rest, "type"))
        url == de_String(field(rest, "url"))
        blog == de_BlogInfo(field(rest, "blog"))
        hex == de_String(field(rest, "hex"))
        format_type ==
            IF ~tag.ok THEN Err
            ELSE IF tag.value[1] \in { "bold", "italic", "strikethrough", "small" }
            THEN Ok([variant |-> tag.value[1]])
            ELSE IF tag.value[1] = "link" /\ url.ok
            THEN Ok([variant |-> "link", url |-> url.value[1]])
            ELSE IF tag.value[1] = "mention" /\ blog.ok
            THEN Ok([variant |-> "mention", blog |-> blog.value[1]])
            ELSE IF tag.value[1] = "color" /\ hex.ok
            THEN Ok([variant |-> "color", hex |-> hex.value[1]])
            ELSE Err
    IN  IF j.t = "object" /\ start.ok /\ end.ok /\ format_type.ok
        THEN Ok([start |-> start.value[1], end |-> end.value[1],
                 format_type |-> format_type.value[1]])
        ELSE Err

\* ContentBlock::Text; subtype is one of the names of TextSubtype and
\* indent_level a u8
de_ContentBlock(j) ==
    LET tag == de_String(field(j.members, "type"))
        text == de_String(field(j.members, "text"))
        s == de_String(field(j.members, "subtype"))
        subtype ==
            optional(j.members, "subtype",
                     IF s.ok /\ s.value[1] \in { "heading1", "heading2", "quirky",
                                                 "quote", "indented", "chat",
                                                 "ordered-list-item",
                                                 "unordered-list-item" }
                     THEN s ELSE Err)
        n == de_u64(field(j.members, "indent_level"))
        indent_level ==
            optional(j.members, "indent_level",
                     IF n.ok /\ n.value[1] <= 255 THEN n ELSE Err)
        f == field(j.members, "formatting")
        formatting ==
            optional(j.members, "formatting",
                     de_Vec(f, [i \in DOMAIN f.elems |-> de_TextFormatting(f.elems[i])]))
    IN  IF /\ j.t = "object" /\ tag.ok /\ tag.value[1] = "text"
           /\ text.ok /\ subtype.ok /\ indent_level.ok /\ formatting.ok
        THEN Ok([text |-> text.value[1], subtype |-> subtype.value[1],
                 indent_level |-> indent_level.value[1],
                 formatting |-> formatting.value[1]])
        ELSE Err

de_RowDisplay(j) ==
    LET b == field(j.members, "blocks")
        blocks == de_Vec(b, [i \in DOMAIN b.elems |-> de_u64(b.elems[i])])
        m == field(j.members, "mode")
        mode ==
            optional(j.members, "mode",
                     IF m.t = "object"
                        /\ de_String(field(m.members, "type")) = Ok("carousel")
                     THEN Ok("Carousel") ELSE Err)
    IN  IF j.t = "object" /\ blocks.ok /\ mode.ok
        THEN Ok([blocks |-> blocks.value[1], mode |-> mode.value[1]])
        ELSE Err

de_LayoutBlock(j) ==
    LET tag == de_String(field(j.members, "type"))
        b == field(j.members, "blocks")
        rows == de_Vec(b, [i \in DOMAIN b.elems |-> de_RowDisplay(b.elems[i])])
        blocks == de_Vec(b, [i \in DOMAIN b.elems |-> de_u64(b.elems[i])])
        maybe_blocks == optional(j.members, "blocks", blocks)
        truncate_after ==
            optional(j.members, "truncate_after",
                     de_u64(field(j.members, "truncate_after")))
        attribution ==
            optional(j.members, "attribution",
                     de_Attribution(field(j.members, "attribution")))
    IN  IF j.t # "object" \/ ~tag.ok THEN Err
        ELSE IF tag.value[1] = "rows" /\ rows.ok /\ truncate_after.ok
        THEN Ok([variant |-> "Rows", blocks |-> rows.value[1],
                 truncate_after |-> truncate_after.value[1]])
        ELSE IF tag.value[1] = "condensed" /\ truncate_after.ok /\ maybe_blocks.ok
        THEN Ok([variant |-> "Condensed",
                 truncate_after |-> truncate_after.value[1],
                 blocks |-> maybe_blocks.value[1]])
        ELSE IF tag.value[1] = "ask" /\ blocks.ok /\ attribution.ok
        THEN Ok([variant |-> "Ask", blocks |-> blocks.value[1],
                 attribution |-> attribution.value[1]])
        ELSE Err

\* untagged: the first variant that deserializes
de_ReblogTrail(j) ==
    LET post == de_PostInfo(field(j.members, "post"))
        blog == de_BlogInfo(field(j.members, "blog"))
        broken_blog_name == de_String(field(j.members, "broken_blog_name"))
        c == field(j.members, "content")
        content == de_Vec(c, [i \in DOMAIN c.elems |-> de_ContentBlock(c.elems[i])])
        l == field(j.members, "layout")
        layout == de_Vec(l, [i \in DOMAIN l.elems |-> de_LayoutBlock(l.elems[i])])
    IN  IF j.t # "object" THEN Err
        ELSE IF post.ok /\ blog.ok /\ content.ok /\ layout.ok
        THEN Ok([variant |-> "Ok", post |-> post.value[1], blog |-> blog.value[1],
                 content |-> content.value[1], layout |-> layout.value[1]])
        ELSE IF broken_blog_name.ok /\ content.ok /\ layout.ok
        THEN Ok([variant |-> "Broken",
                 broken_blog_name |-> broken_blog_name.value[1],
                 content |-> content.value[1], layout |-> layout.value[1]])
        ELSE Err

\* serde_json::from_str::<ty>
from_str(ty, j) ==
    CASE ty = "Media" -> de_Media(j)
      [] ty = "Attribution" -> de_Attribution(j)
      [] ty = "ContentBlock" -> de_ContentBlock(j)
      [] ty = "LayoutBlock" -> de_LayoutBlock(j)
      [] ty = "ReblogTrail" -> de_ReblogTrail(j)

\* the text with one member no type declares placed in every object, in
\* front of its members or behind them
RECURSIVE with_unknown(_, _)
with_unknown(j, place) ==
    LET unknown == Member("name", JStr("david"))
        members == [i \in DOMAIN j.members |->
                       Member(j.members[i].key,
                              with_unknown(j.members[i].value, place))]
    IN  CASE j.t = "object" ->
                JObj(IF place = "front" THEN << unknown >> \o members
                     ELSE members \o << unknown >>)
          [] j.t = "array" ->
                JArr([i \in DOMAIN j.elems |-> with_unknown(j.elems[i], place)])
          [] OTHER -> j

Option(S) == { <<>> } \cup { << v >> : v \in S }
VecsUpTo(S, n) == UNION { [1..k -> S] : k \in 0..n }

\* The values serialized and read back, each with its type: the values of
\* the tests and their neighbours (every Option both ways, every variant of
\* the four types; inside a reblog trail one block of each kind).
SerdeInputs ==
    LET BlogInfos == { [uuid |-> "abcdef"] }
        PostInfos == { [id |-> 1234567890] }
        Medias ==
            [url : { "https://scontent.cdninstagram.com/path/to/logo.jpg" },
             mime_type : Option({ "image/jpeg" }),
             width : Option({ 64 }),
             height : Option({ 64 })]
        Attributions ==
            [variant : { "Post" }, url : { "http://shahkashani.com" },
             blog : BlogInfos, post : PostInfos]
            \cup [variant : { "Link" }, url : { "http://shahkashani.com" }]
            \cup [variant : { "Blog" }, blog : BlogInfos]
            \cup [variant : { "App" },
                  url : { "https://www.instagram.com/p/BVZyxTklQWX/" },
                  app_name : Option({ "Instagram" }),
                  display_text : Option({ "tibbythecorgi - Very Cute" }),
                  logo : Option({ m \in Medias : m.width = m.height })]
        TextFormatTypes ==
            [variant : { "bold", "italic" }]
            \cup [variant : { "link" }, url : { "http://shahkashani.com" }]
            \cup [variant : { "mention" }, blog : BlogInfos]
            \cup [variant : { "color" }, hex : { "#ff492f" }]
        ContentBlocks ==
            [text : { "Hello world!" },
             subtype : Option({ "ordered-list-item" }),
             indent_level : Option({ 1 }),
             formatting :
                Option(VecsUpTo([start : { 5 }, end : { 9 },
                                 format_type : TextFormatTypes], MaxVec))]
        RowDisplays ==
            [blocks : VecsUpTo({ 0, 1 }, MaxVec), mode : Option({ "Carousel" })]
        LayoutBlocks ==
            [variant : { "Rows" }, blocks : VecsUpTo(RowDisplays, MaxVec),
             truncate_after : Option({ 1 })]
            \cup [variant : { "Condensed" }, truncate_after : Option({ 1 }),
                  blocks : Option(VecsUpTo({ 0, 1 }, MaxVec))]
            \cup [variant : { "Ask" }, blocks : VecsUpTo({ 0, 1 }, MaxVec),
                  attribution : Option(Attributions)]
        TrailContents ==
            { c \in ContentBlocks : c.indent_level = <<>> /\ c.formatting = <<>> }
        TrailLayouts ==
            { l \in LayoutBlocks :
                /\ l.variant = "Ask"
                /\ l.blocks = <<>>
                /\ l.attribution \in Option([variant : { "Blog" }, blog : BlogInfos]) }
        ReblogTrails ==
            [variant : { "Ok" }, post : PostInfos, blog : BlogInfos,
             content : VecsUpTo(TrailContents, MaxVec),
             layout : VecsUpTo(TrailLayouts, MaxVec)]
            \cup [variant : { "Broken" }, broken_blog_name : { "old-broken-blog" },
                  content : VecsUpTo(TrailContents, MaxVec),
                  layout : VecsUpTo(TrailLayouts, MaxVec)]
    IN  [ty : { "Media" }, value : Medias]
        \cup [ty : { "Attribution" }, value : Attributions]
        \cup [ty : { "ContentBlock" }, value : ContentBlocks]
        \cup [ty : { "LayoutBlock" }, value : LayoutBlocks]
        \cup [ty : { "ReblogTrail" }, value : ReblogTrails]

InitSerde ==
    /\ HandshakeOff
    /\ inp \in SerdeInputs
    /\ out = <<>>
    /\ epc = "value"

\* assert_serde, second assertion: to_string_pretty(&obj)
ToStringPretty ==
    /\ epc = "value"
    /\ out' = [text |-> to_string_pretty(inp.ty, inp.value)]
    /\ epc' = "text"
    /\ UNCHANGED <<cells, holders, net, last, returned, inp>>

\* assert_serde, first assertion: from_str::<T>(str), of the text as it was
\* written or with unknown members
ReadBack ==
    /\ epc = "text"
    /\ \E place \in { "none", "front", "back" } :
         out' = [text |-> out.text, place |-> place,
                 parsed |-> from_str(inp.ty,
                                     IF place = "none" THEN out.text
                                     ELSE with_unknown(out.text, place))]
    /\ epc' = "parsed"
    /\ UNCHANGED <<cells, holders, net, last, returned, inp>>

NextSerde == ToStringPretty \/ ReadBack

SpecSerde == InitSerde /\ [][NextSerde]_vars

(***************************************************************************)
(* Properties.                                                             *)
(***************************************************************************)
Cells == DOMAIN cells

\* the value a form body gives for key k (the body has it once)
ValueOf(body, k) == body[CHOOSE i \in DOMAIN body : body[i][1] = k][2]

HasOnce(body, k) == Cardinality({i \in DOMAIN body : body[i][1] = k}) = 1

\* the pair a well-formed credential body carries
PairOf(body) ==
    [oauth_token |-> ValueOf(body, "oauth_token"),
     oauth_token_secret |-> ValueOf(body, "oauth_token_secret")]

TransitionOps == {"try_into_temporary", "verify_token", "with_credentials"}

\* the state each transition goes from and to
FromState(op) == IF op = "verify_token" THEN "Temporary" ELSE "Unauthenticated"
ToState(op) == IF op = "try_into_temporary" THEN "Temporary" ELSE "Authenticated"

\* the credentials a transition attempt proposes: the pair parsed from the
\* response, or the pair passed to with_credentials
Proposed(ev) == IF ev.op = "with_credentials" THEN ev.arg[1] ELSE PairOf(ev.body)

\* a transition attempt ended in this step (try_into_other_state was called)
Attempt == last'.op \in TransitionOps /\ last'.result \in {"ok", "conflict"}

\* C1: a transition attempt succeeds exactly when the caller's handle is the
\* only live reference to the client (strong count 1); on success the next
\* client holds the proposed credentials and the same consumer key and
\* secret; with another clone alive it fails, the caller keeps its handle on
\* the unchanged client and is handed the proposed credentials back.
C1_SoleOwnerTransition ==
    [][Attempt =>
        LET h == last'.h
            c == holders[h].handle
        IN  /\ (last'.result = "ok") <=> (cells[c].strong = 1)
            /\ last'.result = "ok" =>
                  /\ holders'[h].handle = Len(cells) + 1
                  /\ Len(cells') = Len(cells) + 1
                  /\ cells'[Len(cells) + 1] =
                        [oauth_consumer_key |-> cells[c].oauth_consumer_key,
                         oauth_client_secret |-> cells[c].oauth_client_secret,
                         state |-> ToState(last'.op),
                         cred |-> << Proposed(last') >>,
                         strong |-> 1,
                         parent |-> c]
                  /\ last'.back = <<>>
            /\ last'.result = "conflict" =>
                  /\ holders'[h].handle = c
                  /\ cells' = cells
                  /\ cells[c].state = FromState(last'.op)
                  /\ last'.back = << Proposed(last') >>
                  /\ Proposed(last') \in returned'
    ]_vars

\* C1 witness: try_into_temporary ended in an ownership conflict with a
\* second handle alive, and the parsed credentials came back.
C1_Witness ==
    /\ last.op = "try_into_temporary"
    /\ last.result = "conflict"
    /\ last.back = << OAuthCredentials("tmp", "tmps") >>
    /\ cells[holders[last.h].handle].strong = 2

Rank(state) ==
    CASE state = "Unauthenticated" -> 0
      [] state = "Temporary" -> 1
      [] state = "Authenticated" -> 2
      [] OTHER -> -1

\* C2, as claimed: a client never changes state in place, every client made
\* by a transition is exactly one stage after the client it was made from,
\* so every Authenticated client was made from a Temporary one.
C2_NoStageSkipped ==
    [][/\ \A c \in Cells : cells'[c].state = cells[c].state
       /\ \A c \in DOMAIN cells' \ Cells :
             IF cells'[c].parent = 0
             THEN cells'[c].state = "Unauthenticated"
             ELSE Rank(cells'[c].state) = Rank(cells[cells'[c].parent].state) + 1
    ]_vars

\* C2, amended: a client never changes state in place and every client made
\* by a transition is in a later stage than the client it was made from
\* (Unauthenticated -> Temporary -> Authenticated, or Unauthenticated ->
\* Authenticated by with_credentials); no operation moves a client backward.
C2_ForwardOnly ==
    [][/\ \A c \in Cells : cells'[c].state = cells[c].state
       /\ \A c \in DOMAIN cells' \ Cells :
             IF cells'[c].parent = 0
             THEN cells'[c].state = "Unauthenticated"
             ELSE /\ cells'[c].parent \in Cells
                  /\ Rank(cells'[c].state) > Rank(cells[cells'[c].parent].state)
    ]_vars

\* C2 witness: with_credentials has made an Authenticated client directly
\* from an Unauthenticated one.
C2_Witness ==
    /\ last.op = "with_credentials"
    /\ last.result = "ok"
    /\ cells[holders[last.h].handle].state = "Authenticated"
    /\ cells[cells[holders[last.h].handle].parent].state = "Unauthenticated"

\* C3, as claimed: every request given to execute carries an Authorization
\* header.
C3_EveryRequestSigned ==
    net # <<>> => "authorization" \in net[1].req.headers

\* the pairs the request_token endpoint issues
TemporaryPairs ==
    { PairOf(b) : b \in { b \in RequestTokenBodies :
                            HasOnce(b, "oauth_token")
                            /\ HasOnce(b, "oauth_token_secret") } }

\* C4, as claimed: no Authenticated client holds a pair that the
\* request_token endpoint issued.
C4_NoTemporaryPairAuthenticated ==
    \A c \in Cells :
        (cells[c].state = "Authenticated" /\ cells[c].strong > 0)
            => cells[c].cred[1] \notin TemporaryPairs

\* C5, as claimed: when try_into_temporary or verify_token ends in a
\* transport error, an unparseable body or a cancellation, no next-state
\* client was made and the caller still holds the client, in its original
\* state.
C5_FailureKeepsClient ==
    [][(/\ last'.op \in {"try_into_temporary", "verify_token"}
        /\ last'.result \in {"Http", "DeserializeForm", "cancelled"})
        => /\ Len(cells') = Len(cells)
           /\ holders'[last'.h].handle = holders[last'.h].handle
           /\ cells'[holders'[last'.h].handle] = cells[holders[last'.h].handle]
    ]_vars

\* the cells made from cell c by a transition
Children(c) == {d \in Cells : cells[d].parent = c}

\* the holders with a handle on cell c
HandlesOn(c) == {h \in Holders : holders[h].handle = c}

\* C6: whatever the interleaving of the holders' attempts, at most one
\* next-state client is ever made from one client value, a client value that
\* a next-state client was made from has no handle left (no attempt
\* succeeded beside a live clone), and every strong reference is a handle
\* some holder has (an attempt that failed has its handle back).
C6_OneSuccessor ==
    \A c \in Cells :
        /\ Cardinality(Children(c)) <= 1
        /\ Children(c) # {} => cells[c].strong = 0
        /\ cells[c].strong = Cardinality(HandlesOn(c))

\* C6 witness: two holders attempted the transition of the same client at
\* the same time; one attempt has just failed with its handle back while the
\* other is still waiting for its response.
C6_Witness ==
    /\ last.op = "try_into_temporary"
    /\ last.result = "conflict"
    /\ \E g \in Holders :
          /\ g # last.h
          /\ holders[g].handle = holders[last.h].handle
          /\ holders[g].pc = "request_token"

\* C7: a request to the access_token endpoint is sent only by a Temporary
\* client, and a Temporary client is made only by try_into_temporary, in the
\* step in which the awaited request_token response arrives and parses into
\* the credentials the client then holds.
C7_VerifyAfterAcquire ==
    [][/\ (net' # <<>> /\ net'[1].req.url = AccessTokenUrl)
            => net'[1].by = "Temporary"
       /\ \A c \in DOMAIN cells' \ Cells :
            cells'[c].state = "Temporary" =>
                /\ last'.op = "try_into_temporary"
                /\ last'.result = "ok"
                /\ holders[last'.h].pc = "request_token"
                /\ HasOnce(last'.body, "oauth_token")
                /\ HasOnce(last'.body, "oauth_token_secret")
                /\ cells'[c].cred = << PairOf(last'.body) >>
    ]_vars

\* C7 witness: a Temporary client's POST to access_token is on the wire.
C7_Witness ==
    /\ net # <<>>
    /\ net[1].req.url = AccessTokenUrl
    /\ net[1].req.method = "POST"
    /\ \E h \in Holders :
          holders[h].pc = "access_token" /\ Inner(h).state = "Temporary"

\* the pairs the access_token endpoint issues
AccessPairs ==
    { PairOf(b) : b \in { b \in AccessTokenBodies :
                            HasOnce(b, "oauth_token")
                            /\ HasOnce(b, "oauth_token_secret") } }

\* C8: an Unauthenticated client holds no credentials, a Temporary and an
\* Authenticated client hold exactly one pair; the Temporary client made by
\* try_into_temporary holds the pair of the request_token response and the
\* Authenticated client made by verify_token holds the pair of the
\* access_token response (acc/accs for oauth_token=acc&oauth_token_secret=accs).
C8_CredentialsOfState ==
    /\ \A c \in Cells :
          cells[c].strong > 0 =>
            /\ cells[c].state = "Unauthenticated" => cells[c].cred = <<>>
            /\ cells[c].state \in {"Temporary", "Authenticated"}
                  => Len(cells[c].cred) = 1
            /\ cells[c].state = "Temporary"
                  => cells[c].cred[1] \in TemporaryPairs
    /\ (last.op \in {"try_into_temporary", "verify_token"} /\ last.result = "ok")
          => /\ cells[holders[last.h].handle].state = ToState(last.op)
             /\ cells[holders[last.h].handle].cred = << PairOf(last.body) >>
             /\ last.op = "verify_token" =>
                  cells[holders[last.h].handle].cred[1] \in AccessPairs

\* C8 witness: after tmp/tmps and then acc/accs, verify_token has made an
\* Authenticated client that holds acc/accs.
C8_Witness ==
    /\ last.op = "verify_token"
    /\ last.result = "ok"
    /\ last.body = << Pair("oauth_token", "acc"), Pair("oauth_token_secret", "accs") >>
    /\ Inner(last.h).state = "Authenticated"
    /\ Inner(last.h).cred = << OAuthCredentials("acc", "accs") >>
    /\ cells[Inner(last.h).parent].state = "Temporary"

\* a response text that is a well-formed envelope: a JSON object with a meta
\* object whose status is a u16 and whose response member, when there is
\* one, is null or a T
WellFormedEnvelope(text) ==
    /\ text.json
    /\ text.meta # <<>>
    /\ text.meta[1].status \in 0..65535
    /\ text.response \in {"absent", "null", "value"}

RECURSIVE ClaimedEscapes(_)
ClaimedEscapes(bytes) ==
    IF bytes = <<>> THEN <<>>
    ELSE << 37, HexDigit(Head(bytes) \div 16), HexDigit(Head(bytes) % 16) >>
         \o ClaimedEscapes(Tail(bytes))

RECURSIVE ClaimedEncoding(_)
ClaimedEncoding(str) ==
    IF str = <<>> THEN <<>>
    ELSE (IF Unreserved(Head(str))
          THEN << Head(str) >>
          ELSE ClaimedEscapes(encode_utf8(Head(str))))
         \o ClaimedEncoding(Tail(str))

\* C10, as claimed: oauth_encode passes the unreserved characters through
\* and replaces every other byte by exactly three characters, '%' and two
\* uppercase hexadecimal digits.
C10_ThreeCharacterEscapes ==
    epc = "done" => out = ClaimedEncoding(inp)

\* the UTF-8 bytes of a string
RECURSIVE Utf8Bytes(_)
Utf8Bytes(str) ==
    IF str = <<>> THEN <<>>
    ELSE encode_utf8(Head(str)) \o Utf8Bytes(Tail(str))

\* C11, as claimed: percent-decoding the output of oauth_encode gives the
\* input back (the decoded bytes are the UTF-8 bytes of the input), so no
\* two inputs have the same encoding.
C11_RoundTrip ==
    epc = "done" => percent_decode(out) = Utf8Bytes(inp)

\* the parameters of the redirect URL that are named oauth_verifier
Verifiers_of(r) == SelectSeq(r.params, LAMBDA p : p.key = <<111, 97, 117, 116, 104, 95, 118, 101, 114, 105, 102, 105, 101, 114>>)

\* C14: parse_redirect_url returns the value of the oauth_verifier query
\* parameter (the first one, wherever it stands among the others) when the
\* URL parses and has that parameter, and nothing when the URL does not
\* parse or has no such parameter in its query; it never returns the value
\* of another parameter.
C14_Verifier ==
    epc = "parsed" =>
        IF inp.prefix.parses /\ Verifiers_of(inp) # <<>>
        THEN out = << Verifiers_of(inp)[1].value >>
        ELSE out = <<>>

\* C14 witness: for https://cb.example/?x=1&oauth_verifier=abc123 the
\* result is "abc123".
C14_Witness ==
    /\ epc = "parsed"
    /\ RedirectUrl(inp) = <<104, 116, 116, 112, 115, 58, 47, 47, 99, 98, 46, 101, 120, 97, 109, 112, 108, 101, 47, 63, 120, 61, 49, 38, 111, 97, 117, 116, 104, 95, 118, 101, 114, 105, 102, 105, 101, 114, 61, 97, 98, 99, 49, 50, 51>>
    /\ out = << <<97, 98, 99, 49, 50, 51>> >>

\* a is before b in the lexicographic order of strings
StrLess(a, b) ==
    \E k \in 1..(Len(a) + 1) :
        /\ k <= Len(b)
        /\ \A j \in 1..(k - 1) : a[j] = b[j]
        /\ k = Len(a) + 1 \/ a[k] < b[k]

\* pair p is before pair q: by key, then by value
PairLess(p, q) == StrLess(p[1], q[1]) \/ (p[1] = q[1] /\ StrLess(p[2], q[2]))

\* the pairs of s in order: the one at index i stands after the pairs that
\* are before it and the equal ones that come earlier in s
Ordered(s) ==
    LET place(i) == 1 + Cardinality({ j \in DOMAIN s :
                          PairLess(s[j], s[i]) \/ (s[j] = s[i] /\ j < i) })
    IN  [k \in DOMAIN s |-> s[CHOOSE i \in DOMAIN s : place(i) = k]]

\* key=value of each pair, with '&' between them
RECURSIVE Joined(_)
Joined(s) ==
    IF s = <<>> THEN <<>>
    ELSE (IF Len(s) = 1 THEN <<>> ELSE Joined(SubSeq(s, 1, Len(s) - 1)) \o << 38 >>)
         \o s[Len(s)][1] \o << 61 >> \o s[Len(s)][2]

\* the parameters of the call the input describes, as the claim lists them:
\* the query pairs, the protocol parameters and the extra parameters, each
\* key and value percent-encoded
ClaimedParameters(i) ==
    LET enc(s) == [k \in DOMAIN s |-> << oauth_encode(s[k][1]), oauth_encode(s[k][2]) >>]
    IN  enc([k \in DOMAIN i.query |-> << i.query[k].key, i.query[k].value >>])
        \o enc(<< << <<111, 97, 117, 116, 104, 95, 99, 111, 110, 115, 117, 109, 101, 114, 95, 107, 101, 121>>, <<99, 107, 49>> >>,
                  << <<111, 97, 117, 116, 104, 95, 116, 111, 107, 101, 110>>,
                     IF i.tokens.oauth_token = <<>> THEN <<>>
                     ELSE i.tokens.oauth_token[1] >>,
                  << <<111, 97, 117, 116, 104, 95, 115, 105, 103, 110, 97, 116, 117, 114, 101, 95, 109, 101, 116, 104, 111, 100>>, <<72, 77, 65, 67, 45, 83, 72, 65, 49>> >>,
                  << <<111, 97, 117, 116, 104, 95, 116, 105, 109, 101, 115, 116, 97, 109, 112>>, i.timestamp >>,
                  << <<111, 97, 117, 116, 104, 95, 110, 111, 110, 99, 101>>, i.nonce >>,
                  << <<111, 97, 117, 116, 104, 95, 118, 101, 114, 115, 105, 111, 110>>, <<49, 46, 48>> >> >>)
        \o enc(IF i.other_params = <<>> THEN <<>> ELSE i.other_params[1])

\* the Authorization header of a signed request: its items
AuthorizationOf(req) ==
    (CHOOSE h \in { req.headers[k] : k \in DOMAIN req.headers } :
        h.name = "authorization").value

\* the signature of a signed request: the HMAC's key and message
SignatureOf(req) ==
    (CHOOSE item \in { AuthorizationOf(req)[k] : k \in DOMAIN AuthorizationOf(req) } :
        item.hmac # <<>>).hmac[1]

\* the segments of the signature base string, between its '&'
Segments(req) == Split(SignatureOf(req).message, 38)

\* every order of the elements of s
Reorderings(s) ==
    { [k \in DOMAIN s |-> s[f[k]]] : f \in Permutations(DOMAIN s) }

\* the input with its query parameters and its extra parameters reordered
Shuffled(i) ==
    { [i EXCEPT !.query = q, !.other_params = o] :
        q \in Reorderings(i.query),
        o \in IF i.other_params = <<>> THEN { <<>> }
              ELSE { << v >> : v \in Reorderings(i.other_params[1]) } }

\* C12: the normalized parameter string that goes, encoded, into the
\* signature base string as its third segment is the query pairs, the
\* protocol parameters and the extra parameters, encoded, ordered by key and
\* then by value and joined as
\* key=value with '&'; it is the same for every order of the query
\* parameters and of the extra parameters, equal keys included.
C12_NormalizedParameters ==
    epc = "signed" =>
        /\ Len(Segments(out)) = 3
        /\ Segments(out)[3] = oauth_encode(Joined(Ordered(ClaimedParameters(inp))))
        /\ \A i \in Shuffled(inp) :
              Segments(Signed(i))[3] = Segments(out)[3]

\* C12 witness: a request was signed whose query has the key tag twice, the
\* greater value first, and whose extra parameters are not in order either.
C12_Witness ==
    /\ epc = "signed"
    /\ Len(inp.query) = 2
    /\ inp.query[1].key = inp.query[2].key
    /\ StrLess(inp.query[2].value, inp.query[1].value)
    /\ inp.other_params # <<>>
    /\ Len(inp.other_params[1]) = 2
    /\ inp.other_params[1][1][1] = <<111, 97, 117, 116, 104, 95, 118, 101, 114, 105, 102, 105, 101, 114>>
    /\ Segments(out)[3] # <<>>

\* the protocol parameters sign adds by itself, and oauth_signature
ProtocolNames ==
    { <<111, 97, 117, 116, 104, 95, 99, 111, 110, 115, 117, 109, 101, 114, 95, 107, 101, 121>>, <<111, 97, 117, 116, 104, 95, 116, 111, 107, 101, 110>>, <<111, 97, 117, 116, 104, 95, 115, 105, 103, 110, 97, 116, 117, 114, 101, 95, 109, 101, 116, 104, 111, 100>>,
      <<111, 97, 117, 116, 104, 95, 116, 105, 109, 101, 115, 116, 97, 109, 112>>, <<111, 97, 117, 116, 104, 95, 110, 111, 110, 99, 101>>, <<111, 97, 117, 116, 104, 95, 118, 101, 114, 115, 105, 111, 110>>,
      <<111, 97, 117, 116, 104, 95, 115, 105, 103, 110, 97, 116, 117, 114, 101>> }

\* the items of the Authorization header named name
ItemsNamed(req, name) ==
    { k \in DOMAIN AuthorizationOf(req) : AuthorizationOf(req)[k].k = name }

\* the extra parameters of the call
ExtraParams(i) == IF i.other_params = <<>> THEN <<>> ELSE i.other_params[1]

\* C13: the request sign returns has one Authorization header; it has each
\* of oauth_consumer_key, oauth_token (empty without a token),
\* oauth_signature_method, oauth_timestamp, oauth_nonce, oauth_version and
\* oauth_signature exactly once, every extra parameter of the call, and
\* nothing else: no query parameter of the URL, which is still on the URL.
C13_AuthorizationHeader ==
    epc = "signed" =>
        /\ Cardinality({ k \in DOMAIN out.headers :
                            out.headers[k].name = "authorization" }) = 1
        /\ \A name \in ProtocolNames : Cardinality(ItemsNamed(out, name)) = 1
        /\ \A k \in ItemsNamed(out, <<111, 97, 117, 116, 104, 95, 116, 111, 107, 101, 110>>) :
              AuthorizationOf(out)[k].v =
                 (IF inp.tokens.oauth_token = <<>> THEN <<>>
                  ELSE oauth_encode(inp.tokens.oauth_token[1]))
        /\ \A k \in ItemsNamed(out, <<111, 97, 117, 116, 104, 95, 115, 105, 103, 110, 97, 116, 117, 114, 101, 95, 109, 101, 116, 104, 111, 100>>) :
              AuthorizationOf(out)[k].v = <<72, 77, 65, 67, 45, 83, 72, 65, 49>>
        /\ \A k \in ItemsNamed(out, <<111, 97, 117, 116, 104, 95, 118, 101, 114, 115, 105, 111, 110>>) :
              AuthorizationOf(out)[k].v = <<49, 46, 48>>
        /\ \A e \in DOMAIN ExtraParams(inp) :
              \E k \in ItemsNamed(out, oauth_encode(ExtraParams(inp)[e][1])) :
                  AuthorizationOf(out)[k].v = oauth_encode(ExtraParams(inp)[e][2])
        /\ Len(AuthorizationOf(out)) = 7 + Len(ExtraParams(inp))
        /\ \A q \in DOMAIN inp.query :
              ItemsNamed(out, oauth_encode(inp.query[q].key)) = {}
        /\ out.url = SignUrl(inp.url, inp.query)

\* C13 witness: a request with a query parameter was signed without a token
\* and with the verifier as extra parameter: the header has an empty
\* oauth_token and oauth_verifier="v1".
C13_Witness ==
    /\ epc = "signed"
    /\ inp.query # <<>>
    /\ inp.tokens.oauth_token = <<>>
    /\ ExtraParams(inp) = << << <<111, 97, 117, 116, 104, 95, 118, 101, 114, 105, 102, 105, 101, 114>>, <<118, 49>> >> >>
    /\ \E k \in ItemsNamed(out, <<111, 97, 117, 116, 104, 95, 116, 111, 107, 101, 110>>) : AuthorizationOf(out)[k].v = <<>>
    /\ \E k \in ItemsNamed(out, <<111, 97, 117, 116, 104, 95, 118, 101, 114, 105, 102, 105, 101, 114>>) : AuthorizationOf(out)[k].v = <<118, 49>>

\* sub occurs in str
Contains(str, sub) ==
    \E k \in 1..(Len(str) - Len(sub) + 1) : SubSeq(str, k, k + Len(sub) - 1) = sub

\* C18: the message that is signed (the signature base string) is the
\* method in upper case, '&', the encoded base URI, '&', the encoded
\* normalized parameter string: three segments and two '&', and no
\* oauth_signature parameter in the third segment.
C18_BaseString ==
    epc = "signed" =>
        LET message == SignatureOf(out).message
        IN  /\ message = inp.method \o << 38 >>
                         \o oauth_encode(base_uri(out.url)) \o << 38 >>
                         \o oauth_encode(Joined(Ordered(ClaimedParameters(inp))))
            /\ Cardinality({ k \in DOMAIN message : message[k] = 38 }) = 2
            /\ inp.method \in { <<71, 69, 84>>, <<80, 79, 83, 84>> }
            /\ ~Contains(Segments(out)[3], oauth_encode(<<111, 97, 117, 116, 104, 95, 115, 105, 103, 110, 97, 116, 117, 114, 101, 61>>))

\* C18 witness: a POST with a query and the verifier was signed; the base
\* string starts with POST&https%3A%2F%2F and its third segment starts
\* with the encoded first parameter.
C18_Witness ==
    /\ epc = "signed"
    /\ inp.method = <<80, 79, 83, 84>>
    /\ inp.query # <<>>
    /\ ExtraParams(inp) # <<>>
    /\ SubSeq(SignatureOf(out).message, 1, 20) = <<80, 79, 83, 84, 38, 104, 116, 116, 112, 115, 37, 51, 65, 37, 50, 70, 37, 50, 70>> \o << 97 >>
    /\ Contains(Segments(out)[3], <<37, 50, 54, 111, 97, 117, 116, 104, 95, 118, 101, 114, 105, 102, 105, 101, 114, 37, 51, 68, 118, 49>>)

\* C19, as claimed: the base URI in the signature base string is the URL
\* without its query, scheme and host in lower case and the path as it is
\* in the URL (the URLs here have their scheme and host in lower case).
C19_PathCaseKept ==
    epc = "signed" => Segments(out)[2] = oauth_encode(inp.url)

CredentialEndpoints == {RequestTokenUrl, AccessTokenUrl}

\* C16, as claimed: a request to a credential endpoint is on the wire only
\* for a client with no other live holder, and an attempt that ended in an
\* ownership conflict had no pair issued for it.
C16_OwnershipFirst ==
    /\ (net # <<>> /\ net[1].req.url \in CredentialEndpoints)
          => cells[net[1].cell].strong = 1
    /\ (last.op \in {"try_into_temporary", "verify_token"} /\ last.result = "conflict")
          => last.body = <<>>

\* C16, amended: try_into_temporary and verify_token check ownership only
\* when the response of the credential endpoint has arrived and parsed into
\* a pair: an attempt ends in success or in an ownership conflict only in
\* the step that ends the wait for that response, in a conflict exactly when
\* another handle is alive at that moment, and the conflict hands the issued
\* pair back with the caller's handle on the unchanged client.
C16_OwnershipAfterResponse ==
    [][(/\ last'.op \in {"try_into_temporary", "verify_token"}
        /\ last'.result \in {"ok", "conflict"})
        => LET h == last'.h
               c == holders[h].handle
           IN  /\ holders[h].pc = (IF last'.op = "try_into_temporary"
                                   THEN "request_token" ELSE "access_token")
               /\ HasOnce(last'.body, "oauth_token")
               /\ HasOnce(last'.body, "oauth_token_secret")
               /\ (last'.result = "conflict") <=> (cells[c].strong > 1)
               /\ last'.result = "conflict" =>
                     /\ last'.back = << PairOf(last'.body) >>
                     /\ holders'[h].handle = c
                     /\ cells' = cells
    ]_vars

\* C16 witness: verify_token ended in an ownership conflict after the
\* access_token endpoint had issued acc/accs, which came back to the caller
\* of a Temporary client that another holder has a handle on.
C16_Witness ==
    /\ last.op = "verify_token"
    /\ last.result = "conflict"
    /\ last.back = << OAuthCredentials("acc", "accs") >>
    /\ Inner(last.h).state = "Temporary"
    /\ Inner(last.h).strong = 2

\* C17, as claimed: the access_token request is made by a call of sign with
\* the token and the token secret of the client's own Temporary state and
\* with oauth_verifier as its only other parameter.
C17_SignsWithOwnCredentials ==
    (net # <<>> /\ net[1].req.url = AccessTokenUrl) =>
        /\ net[1].call.oauth_token = << cells[net[1].cell].cred[1].oauth_token >>
        /\ net[1].call.oauth_token_secret =
              << cells[net[1].cell].cred[1].oauth_token_secret >>
        /\ \E v \in Verifiers :
              net[1].call.other_params = << << "oauth_verifier", v >> >>

\* C20, as claimed: every request on the wire is signed; the request for
\* temporary credentials with no token and no token secret (an empty
\* oauth_token, a signing key that ends in '&'), the requests of
\* verify_token and of the resource calls with the token and the token
\* secret of the client's current state.
C20_SignedWithStateCredentials ==
    net # <<>> =>
        /\ "authorization" \in net[1].req.headers
        /\ net[1].by = "Unauthenticated" =>
              /\ net[1].call.oauth_token = <<>>
              /\ net[1].call.oauth_token_secret = <<>>
        /\ net[1].by \in {"Temporary", "Authenticated"} =>
              /\ net[1].call.oauth_token =
                    << cells[net[1].cell].cred[1].oauth_token >>
              /\ net[1].call.oauth_token_secret =
                    << cells[net[1].cell].cred[1].oauth_token_secret >>

\* the texts with a null in them
RECURSIVE HasNull(_)
HasNull(j) ==
    \/ j.t = "null"
    \/ \E i \in DOMAIN j.elems : HasNull(j.elems[i])
    \/ \E i \in DOMAIN j.members : HasNull(j.members[i].value)

\* C15: for LayoutBlock, ReblogTrail, Attribution and Media (and the text
\* blocks inside a trail), the text serialized from a value has no member
\* for a field that is None; reading that text, with or without members the
\* type does not know, gives the value back, and serializing what was read
\* gives the same text again.
C15_SerdeInverse ==
    /\ epc = "text" => ~HasNull(out.text)
    /\ epc = "parsed" =>
         /\ out.parsed = Ok(inp.value)
         /\ to_string_pretty(inp.ty, out.parsed.value[1]) = out.text

\* the App attribution of the tests without its display text, read back from
\* a text with unknown members
C15_Witness ==
    /\ epc = "parsed"
    /\ inp.ty = "Attribution"
    /\ inp.value.variant = "App"
    /\ inp.value.display_text = <<>>
    /\ inp.value.logo # <<>>
    /\ out.place = "front"
    /\ ValuesOf(out.text.members, "display_text") = <<>>
    /\ out.parsed.ok

\* C21: generate_callback_url returns the authorize URL followed by the
\* temporary token of the client's state; the call sends nothing and leaves
\* every client (state, credentials, consumer pair, reference count), every
\* handle and every pending call as they were, so that verify_token on the
\* client ends as it would have ended without the call.
C21_CallbackUrlIsPure ==
    [][\A h \in Holders :
          (last'.op = "generate_callback_url" /\ last'.h = h) =>
              /\ cells[holders[h].handle].state = "Temporary"
              /\ last'.result =
                    "https://www.tumblr.com/oauth/authorize?oauth_token="
                        \o cells[holders[h].handle].cred[1].oauth_token
              /\ net' = <<>>
              /\ cells' = cells
              /\ holders' = holders
              /\ returned' = returned
              /\ \A resp \in AccessTokenBodies :
                    FromStr(resp).ok =>
                        try_into_other_state(cells', holders'[h].handle,
                            StateAfterVerify, FromStr(resp).value[1])
                        = try_into_other_state(cells, holders[h].handle,
                            StateAfterVerify, FromStr(resp).value[1])]_vars

\* C21 witness: the authorize URL of the pair tmp/tmps was returned for a
\* Temporary client that another holder holds too.
C21_Witness ==
    /\ last.op = "generate_callback_url"
    /\ last.result = "https://www.tumblr.com/oauth/authorize?oauth_token=tmp"
    /\ cells[holders[last.h].handle].state = "Temporary"
    /\ cells[holders[last.h].handle].strong = 2

\* C22: the consumer key and the consumer secret of a client never change:
\* a live client keeps its pair in every step, a client made by Client::new
\* has a pair given to Client::new, a client made by a transition
\* (try_into_temporary, verify_token, with_credentials) has the pair of the
\* client it was made from, and a holder whose transition ended in an
\* ownership conflict has the client it had, with its pair.
C22_ConsumerPairKept ==
    [][/\ \A c \in DOMAIN cells :
             cells'[c].strong > 0 =>
                 /\ cells'[c].oauth_consumer_key = cells[c].oauth_consumer_key
                 /\ cells'[c].oauth_client_secret = cells[c].oauth_client_secret
       /\ \A c \in DOMAIN cells' \ DOMAIN cells :
             IF cells'[c].parent = 0
             THEN << cells'[c].oauth_consumer_key, cells'[c].oauth_client_secret >>
                      \in ConsumerPairs
             ELSE /\ last'.op \in {"try_into_temporary", "verify_token",
                                   "with_credentials"}
                  /\ cells'[c].parent = holders[last'.h].handle
                  /\ cells'[c].oauth_consumer_key
                         = cells[cells'[c].parent].oauth_consumer_key
                  /\ cells'[c].oauth_client_secret
                         = cells[cells'[c].parent].oauth_client_secret
       /\ last'.result = "conflict" =>
             /\ holders'[last'.h].handle = holders[last'.h].handle
             /\ cells'[holders'[last'.h].handle].strong > 0]_vars

\* C22 witness: verify_token has made an Authenticated client with the pair
\* ck1/cs1 from a Temporary client that try_into_temporary had made.
C22_Witness ==
    /\ last.op = "verify_token"
    /\ last.result = "ok"
    /\ cells[holders[last.h].handle].oauth_consumer_key = "ck1"
    /\ cells[holders[last.h].handle].oauth_client_secret = "cs1"
    /\ cells[holders[last.h].handle].state = "Authenticated"
    /\ cells[cells[holders[last.h].handle].parent].state = "Temporary"
    /\ cells[cells[holders[last.h].handle].parent].parent # 0

\* the operation a suspended holder is in
OperationAt(pc) ==
    CASE pc = "request_token" -> "try_into_temporary"
      [] pc = "access_token" -> "verify_token"
      [] pc = "resource" -> "request"

\* C23: no error is retried.  A step that gives a request to execute gives
\* exactly one and is the start of exactly one invocation of
\* try_into_temporary, verify_token or request; a suspended invocation does
\* nothing until its response (or its cancellation) ends it, and the step
\* that ends it sends nothing and returns to the holder that made the call;
\* a body that does not deserialize ends it with the deserialize error and
\* an envelope whose status is not 200 with the API error.
C23_NoRetry ==
    [][/\ net' # <<>> =>
             /\ Len(net') = 1
             /\ \E h \in Holders :
                   /\ holders[h].pc = "idle" /\ holders'[h].pc # "idle"
                   /\ net'[1].cell = holders[h].handle
                   /\ \A g \in Holders \ {h} : holders'[g] = holders[g]
       /\ \A h \in Holders :
             /\ holders[h].pc = "idle" /\ holders'[h].pc # "idle" => net' # <<>>
             /\ holders[h].pc # "idle" /\ holders'[h] # holders[h] =>
                   /\ holders'[h].pc = "idle"
                   /\ net' = <<>>
                   /\ last'.h = h
                   /\ last'.op = OperationAt(holders[h].pc)
                   /\ last'.result \in {"ok", "conflict", "cancelled", "Http",
                                        "DeserializeForm", "DeserializeJson",
                                        "Tumblr", "Ok", "panic"}
                   /\ last'.body # <<>> /\ ~FromStr(last'.body).ok =>
                         last'.result = "DeserializeForm"
                   /\ last'.text # <<>> /\ ~Deserializes(last'.text[1]) =>
                         last'.result = "DeserializeJson"
                   /\ /\ last'.text # <<>>
                      /\ Deserializes(last'.text[1])
                      /\ last'.text[1].meta[1].status # 200
                      => last'.result = "Tumblr"]_vars

\* C23 witness: try_into_temporary has ended with the deserialize error for
\* a body without oauth_token_secret; its holder is idle and nothing is on
\* the wire.
C23_Witness ==
    /\ last.op = "try_into_temporary"
    /\ last.result = "DeserializeForm"
    /\ last.body = << Pair("oauth_token", "tmp") >>
    /\ holders[last.h].pc = "idle"
    /\ net = <<>>

\* C25, as claimed: request always ends in a returned value; it never
\* panics, and for every envelope that deserializes with meta.status 200,
\* the ones without a response member or with a null one included, it
\* returns Ok.
C25_RequestAlwaysReturns ==
    last.op = "request" =>
        /\ last.result # "panic"
        /\ /\ last.text # <<>>
           /\ Deserializes(last.text[1])
           /\ last.text[1].meta[1].status = 200
           => last.result = "Ok"

\* the values of the item named name in the Authorization header of req
ValuesNamed(req, name) ==
    { AuthorizationOf(req)[k].v : k \in ItemsNamed(req, name) }

\* C24, as claimed: two different requests signed in one process run never
\* carry the same oauth_nonce and never carry the same oauth_timestamp.
C24_NeverTheSameNonceOrTimestamp ==
    \A i \in DOMAIN out, j \in DOMAIN out :
        (i < j /\ out[i].url # out[j].url) =>
            /\ ValuesNamed(out[i], <<111, 97, 117, 116, 104, 95, 110, 111, 110, 99, 101>>)
                   \cap ValuesNamed(out[j], <<111, 97, 117, 116, 104, 95, 110, 111, 110, 99, 101>>) = {}
            /\ ValuesNamed(out[i], <<111, 97, 117, 116, 104, 95, 116, 105, 109, 101, 115, 116, 97, 109, 112>>)
                   \cap ValuesNamed(out[j], <<111, 97, 117, 116, 104, 95, 116, 105, 109, 101, 115, 116, 97, 109, 112>>) = {}

====
